---- MODULE Spec2Model ----
(***************************************************************************)
(* Verification model of RJD-AUTOMATION-TOOL.                              *)
(*                                                                         *)
(*  - the lock-protected batch generator, server/fillFromSheet.js          *)
(*    (lock marker, createDocx, the generation loop, the exit paths);      *)
(*  - the JotForm poller, server/poll-jotform.js (processNew, run, the     *)
(*    watermark file).                                                     *)
(*                                                                         *)
(* Each program has its own specification (SpecGen, SpecPoll) over the     *)
(* same variables; the other program's variables stay at their initial     *)
(* values.                                                                 *)
(***************************************************************************)
EXTENDS Integers, Sequences, FiniteSets, TLC

VARIABLES
    lock,       \* .generator.lock: 0 = absent, else the pid written into it
    outDir,     \* OUTPUT_DIR exists
    files,      \* artifact path -> the file exists
    proc,       \* batch generator processes
    nSubs,      \* the form holds submissions 1..nSubs
    lastFile,   \* last_submission.txt: 0 = absent/empty, else the stored id
    cyc,        \* processNew invocations (poll cycles)
    timerOn,    \* setInterval(processNew, ...) has been registered
    genState,   \* per submission: what the generator has done with it so far
    audit,      \* per submission: the appendRowToSheet call made for it
    resolved,   \* raw DATE string -> the resolutions the generator has computed
    inp,        \* the record last passed to the filename computation
    res,        \* what was computed for inp
    dir,        \* OUTPUT_DIR of the pruning generator: file name -> attributes
    pr,         \* the pruneOutputDir call in progress
    missing,    \* the required resource reference this run lacks, or "none"
    genCall,    \* the generate(mapped) call of the poller, in detail
    heur,       \* one row of the days filter of the heuristic generator
    hook        \* the webhook receiver: its secret and its requests

vars == <<lock, outDir, files, proc, nSubs, lastFile, cyc, timerOn, genState,
          audit, resolved, inp, res, dir, pr, missing, genCall, heur, hook>>
genVars == <<lock, outDir, files, proc, resolved>>
pollVars == <<nSubs, lastFile, cyc, timerOn, genState, audit>>
nameVars == <<inp, res>>
pruneVars == <<dir, pr>>
restVars == <<missing, genCall, heur, hook>>

---------------------------------------------------------------------------
(* Bounds *)
MaxProcs == 2       \* batch generator processes started against one LOCK_PATH
MaxRows == 2        \* rows handed to the generation loop in one run
MaxId == 3          \* submissions ever present at the form
MaxCycles == 2      \* processNew invocations in flight at once
MaxMtime == 3       \* distinct modification times of the files to prune
MaxKeep == 3        \* largest retain count passed to pruneOutputDir
MaxReqs == 2        \* requests the webhook receiver gets

Procs == 1..MaxProcs
Cycles == 1..MaxCycles
Ids == 1..MaxId

---------------------------------------------------------------------------
(* Raw strings *)

\* A raw date string is a sequence of tokens: a run of digits, one separator
\* character (a blank stands for any white space character), or a run of
\* letters.
N(ds) == [t |-> "num", d |-> ds, s |-> ""]
S(c) == [t |-> "sep", d |-> <<>>, s |-> c]
W(w) == [t |-> "word", d |-> <<>>, s |-> w]

isNum(tok) == tok.t = "num"
isSep(tok, cs) == tok.t = "sep" /\ tok.s \in cs
isWord(tok) == tok.t = "word"
isBlank(tok) == isSep(tok, {" "})

RECURSIVE trimLeft(_)
trimLeft(str) ==
    IF str # <<>> /\ isBlank(Head(str)) THEN trimLeft(Tail(str)) ELSE str

RECURSIVE trimRight(_)
trimRight(str) ==
    IF str # <<>> /\ isBlank(str[Len(str)])
    THEN trimRight(SubSeq(str, 1, Len(str) - 1)) ELSE str

\* String(s).trim()
trim(str) == trimRight(trimLeft(str))

\* Number(m[i]) of a run of digits
RECURSIVE Number(_)
Number(ds) ==
    IF ds = <<>> THEN 0 ELSE 10 * Number(SubSeq(ds, 1, Len(ds) - 1)) + ds[Len(ds)]

RECURSIVE stripZeros(_)
stripZeros(ds) ==
    IF ds # <<>> /\ Head(ds) = 0 THEN stripZeros(Tail(ds)) ELSE ds

\* 0*(\d{1,2}) on a whole run of digits: zeros, then one or two digits
\* (the last zero of an all-zero run is the captured digit)
zerosThenUpTo2(tok) ==
    isNum(tok) /\ Len(tok.d) >= 1 /\ Len(stripZeros(tok.d)) <= 2

\* \d{a,b} on a whole run of digits
digitRun(tok, a, b) == isNum(tok) /\ Len(tok.d) \in a..b

\* [\/\-\.\s]
DateSeps == {"/", "-", ".", " "}

\* /^0*(\d{1,2})[\/\-\.\s]0*(\d{1,2})[\/\-\.\s](\d{2,4})$/
matchNumeric(str) ==
    /\ Len(str) = 5
    /\ zerosThenUpTo2(str[1]) /\ isSep(str[2], DateSeps)
    /\ zerosThenUpTo2(str[3]) /\ isSep(str[4], DateSeps)
    /\ digitRun(str[5], 2, 4)

\* /^(\d{4})-(\d{1,2})-(\d{1,2})$/
matchISO(str) ==
    /\ Len(str) = 5
    /\ digitRun(str[1], 4, 4) /\ isSep(str[2], {"-"})
    /\ digitRun(str[3], 1, 2) /\ isSep(str[4], {"-"})
    /\ digitRun(str[5], 1, 2)

---------------------------------------------------------------------------
(* Calendar *)

leapYear(y) == (y % 4 = 0 /\ y % 100 # 0) \/ y % 400 = 0

daysInMonth(y, m) ==
    IF m = 2 THEN (IF leapYear(y) THEN 29 ELSE 28)
    ELSE IF m \in {4, 6, 9, 11} THEN 30 ELSE 31

\* the day of month carried into the neighbouring months until it fits
RECURSIVE makeDay(_, _, _)
makeDay(y, m, d) ==
    IF d < 1
    THEN LET pm == IF m = 1 THEN 12 ELSE m - 1
             py == IF m = 1 THEN y - 1 ELSE y
         IN makeDay(py, pm, d + daysInMonth(py, pm))
    ELSE IF d > daysInMonth(y, m)
    THEN makeDay(IF m = 12 THEN y + 1 ELSE y, IF m = 12 THEN 1 ELSE m + 1,
                 d - daysInMonth(y, m))
    ELSE [year |-> y, month |-> m, day |-> d]

\* new Date(year, monthIndex, day) in local time, as the calendar date it
\* denotes (month is getMonth() + 1): a year 0..99 means 1900 + year, and a
\* month index or day out of range carries over
newDate(year, monthIndex, day) ==
    LET y0 == IF year \in 0..99 THEN 1900 + year ELSE year
    IN makeDay(y0 + (monthIndex \div 12), (monthIndex % 12) + 1, day)

\* parsed.date === null
NoDate == [year |-> 0, month |-> 0, day |-> 0]
none == [date |-> NoDate, kind |-> "null"]

\* days from 1 January 1970 to the calendar date
leapsThrough(y) == (y \div 4) - (y \div 100) + (y \div 400)
RECURSIVE daysBeforeMonth(_, _)
daysBeforeMonth(y, m) ==
    IF m = 1 THEN 0 ELSE daysBeforeMonth(y, m - 1) + daysInMonth(y, m - 1)
dayNumber(date) ==
    365 * (date.year - 1970) + leapsThrough(date.year - 1) - leapsThrough(1969)
        + daysBeforeMonth(date.year, date.month) + (date.day - 1)

\* Instants are whole seconds, kept as a day count from 1 January 1970 and
\* the seconds into that day. date.getTime() of a calendar date is its
\* midnight.
getTime(date) == [day |-> dayNumber(date), sec |-> 0]

\* a >= b on instants
notBefore(a, b) == a.day > b.day \/ (a.day = b.day /\ a.sec >= b.sec)

---------------------------------------------------------------------------
(* Deterministic date resolver *)

\* toLowerCase() on the words of the model
toLowerCase(w) ==
    CASE w = "Jan" -> "jan" [] w = "January" -> "january"
      [] w = "APRIL" -> "april" [] w = "Feb" -> "feb" [] w = "Sept" -> "sept"
      [] w = "TH" -> "th" [] w = "St" -> "st"
      [] OTHER -> w

\* monthNames[word], 0 when the word is not a key
monthNames(w) ==
    CASE w \in {"january", "jan"} -> 1 [] w \in {"february", "feb"} -> 2
      [] w \in {"march", "mar"} -> 3 [] w \in {"april", "apr"} -> 4
      [] w = "may" -> 5 [] w \in {"june", "jun"} -> 6
      [] w \in {"july", "jul"} -> 7 [] w \in {"august", "aug"} -> 8
      [] w \in {"september", "sep", "sept"} -> 9
      [] w \in {"october", "oct"} -> 10 [] w \in {"november", "nov"} -> 11
      [] w \in {"december", "dec"} -> 12
      [] OTHER -> 0

commasToBlanks(str) ==
    [i \in 1..Len(str) |-> IF isSep(str[i], {","}) THEN S(" ") ELSE str[i]]

RECURSIVE collapse(_)
collapse(str) ==
    IF Len(str) < 2 THEN str
    ELSE IF isBlank(str[1]) /\ isBlank(str[2]) THEN collapse(Tail(str))
    ELSE <<Head(str)>> \o collapse(Tail(str))

\* str.replace(/,/g,' ').replace(/\s+/g,' ').trim()
cleaned(str) == trim(collapse(commasToBlanks(str)))

\* (?:st|nd|rd|th)? after the day number at position i, case-insensitive:
\* the string without that suffix
dropOrdinal(str, i) ==
    IF /\ Len(str) > i
       /\ isWord(str[i + 1])
       /\ toLowerCase(str[i + 1].s) \in {"st", "nd", "rd", "th"}
    THEN SubSeq(str, 1, i) \o SubSeq(str, i + 2, Len(str))
    ELSE str

\* [A-Za-z]{3,9} on a whole run of letters
monthWord(tok) == isWord(tok) /\ Len(tok.s) \in 3..9

numericRule_monthFirst(str) ==
    LET month == Number(str[1].d)
        day == Number(str[3].d)
        rawYear == Number(str[5].d)
        year == IF rawYear < 100 THEN 2000 + rawYear ELSE rawYear
        d == newDate(year, month - 1, day)
    IN IF month >= 1 /\ month <= 12 /\ day >= 1 /\ day <= 31
          /\ d.year = year /\ d.month = month /\ d.day = day
       THEN [date |-> d, kind |-> "dmy"] ELSE none

roundTrips_unchecked(d, year, month, day) == TRUE

\* d.getFullYear() === year && d.getMonth() === month - 1 && d.getDate() === day
roundTrips(d, year, month, day) ==
    d.year = year /\ d.month = month /\ d.day = day

\* 1) numeric DMY, for a string that matches the numeric pattern
numericRule(str) ==
    LET day == Number(str[1].d)
        month == Number(str[3].d)
        rawYear == Number(str[5].d)
        year == IF rawYear < 100 THEN 2000 + rawYear ELSE rawYear
        d == newDate(year, month - 1, day)
    IN IF month >= 1 /\ month <= 12 /\ day >= 1 /\ day <= 31
          /\ roundTrips(d, year, month, day)
       THEN [date |-> d, kind |-> "dmy"] ELSE none

\* 2) ISO yyyy-mm-dd, for a string that matches the ISO pattern
isoRule(str) ==
    LET year == Number(str[1].d)
        month == Number(str[3].d)
        day == Number(str[5].d)
        d == newDate(year, month - 1, day)
    IN IF roundTrips(d, year, month, day)
       THEN [date |-> d, kind |-> "iso"] ELSE none

\* /^(\d{1,2})(?:st|nd|rd|th)?\s+([A-Za-z]{3,9})\s+(\d{4})$/i
matchDayMonthYear(c) ==
    /\ Len(c) = 5
    /\ digitRun(c[1], 1, 2) /\ isBlank(c[2]) /\ monthWord(c[3])
    /\ isBlank(c[4]) /\ digitRun(c[5], 4, 4)

\* /^([A-Za-z]{3,9})\s+(\d{1,2})(?:st|nd|rd|th)?\s+(\d{4})$/i
matchMonthDayYear(c) ==
    /\ Len(c) = 5
    /\ monthWord(c[1]) /\ isBlank(c[2]) /\ digitRun(c[3], 1, 2)
    /\ isBlank(c[4]) /\ digitRun(c[5], 4, 4)

textDate(dayTok, wordTok, yearTok) ==
    LET day == Number(dayTok.d)
        month == monthNames(toLowerCase(wordTok.s))
        year == Number(yearTok.d)
        d == newDate(year, month - 1, day)
    IN IF month # 0 /\ day >= 1 /\ day <= 31 /\ roundTrips(d, year, month, day)
       THEN [date |-> d, kind |-> "text"] ELSE none

\* 3) textual months: "5 Jan 2026", "5th January 2026", "January 5 2026"
textRule(str) ==
    LET a == dropOrdinal(cleaned(str), 1)
        b == dropOrdinal(cleaned(str), 3)
        first == IF matchDayMonthYear(a) THEN textDate(a[1], a[3], a[5]) ELSE none
    IN IF first # none THEN first
       ELSE IF matchMonthDayYear(b) THEN textDate(b[3], b[1], b[5])
       ELSE none

\* parseDateDeterministic(s): { date, kind }
parseDateDeterministic(s) ==
    IF s = <<>> THEN none
    ELSE LET str == trim(s)
         IN IF matchNumeric(str) THEN numericRule(str)
            ELSE IF matchISO(str) THEN isoRule(str)
            ELSE textRule(str)

---------------------------------------------------------------------------
(* Batch generator: data *)

\* "5/1/2026"
Raw5Jan2026 == <<N(<<5>>), S("/"), N(<<1>>), S("/"), N(<<2, 0, 2, 6>>)>>
\* "1/1/999": a real calendar date with a three-digit year
Raw1Jan999 == <<N(<<1>>), S("/"), N(<<1>>), S("/"), N(<<9, 9, 9>>)>>
\* "": no date in the row
RawEmpty == <<>>

\* "J Smith" and "42"
NameJSmith == <<W("J"), S(" "), W("Smith")>>
Job42 == <<N(<<4, 2>>)>>

\* DATE values of the rows of the sheet
GenRaws == {Raw5Jan2026, Raw1Jan999, RawEmpty}

\* Resolved DATE values of the rows: 5 January 2026, 1 January 999, no date
Dates == {parseDateDeterministic(s).date : s \in GenRaws}

\* the mapped fields of a sheet row that createDocx and the filter read;
\* NAME and JOB_NO are the same for every row of a sheet
Rows == [DATE : GenRaws, NAME : {NameJSmith}, JOB_NO : {Job42}]

RECURSIVE digits(_)
digits(n) == IF n < 10 THEN 1 ELSE 1 + digits(n \div 10)

\* the sentinel token 'nodate'
nodate == <<>>

\* `${getDate()}-${getMonth()+1}-${getFullYear()}` as its three digit
\* groups; '' (here the empty token) when there is no date
formatDateForFilename(date) ==
    IF date = NoDate THEN <<>> ELSE <<date.day, date.month, date.year>>

\* normalizeRawDateForFilename(raw): `${day}-${month}-${year}` as its three
\* digit groups, null (here the empty token) otherwise
normalizeRawDateForFilename(raw) ==
    IF raw = <<>> THEN <<>>
    ELSE LET s == trim(raw)
         IN IF ~matchNumeric(s) THEN <<>>
            ELSE LET day == Number(s[1].d)
                     month == Number(s[3].d)
                     rawYear == Number(s[5].d)
                     year == IF rawYear < 100 THEN 2000 + rawYear ELSE rawYear
                     d == newDate(year, month - 1, day)
                 IN IF d.year = year /\ d.month = month /\ d.day = day
                    THEN <<day, month, year>> ELSE <<>>

FINAL_DATE_REGEX_anyYear(tok) == Len(tok) = 3

\* /^\d{1,2}-\d{1,2}-\d{4}$/ on a token of three digit groups
FINAL_DATE_REGEX(tok) ==
    /\ Len(tok) = 3
    /\ digits(tok[1]) \in {1, 2}
    /\ digits(tok[2]) \in {1, 2}
    /\ digits(tok[3]) = 4

\* createDocx: parsed, formattedDate and safeDate = formattedDate || 'nodate'
safeDate(row) ==
    LET parsed == parseDateDeterministic(row.DATE)
        formatted == IF parsed.date # NoDate
                     THEN formatDateForFilename(parsed.date) ELSE <<>>
        formattedDate == IF formatted = <<>>
                         THEN normalizeRawDateForFilename(row.DATE)
                         ELSE formatted
    IN IF formattedDate = <<>> THEN nodate ELSE formattedDate

\* /[\/\\?%*:|"<>]/
HostileChars == {"/", "\\", "?", "%", "*", ":", "|", "\"", "<", ">"}

\* String(str || '').replace(/[\/\\?%*:|"<>]/g, '-').trim()
safeFilename(str) ==
    trim([i \in 1..Len(str) |->
            IF isSep(str[i], HostileChars) THEN S("-") ELSE str[i]])

NONAME == <<W("NONAME")>>
NOJOBNO == <<W("NOJOBNO")>>

\* outputFile: the file name `${safeDate}-${safeName}-${safeJobNumber}.docx`
\* under OUTPUT_DIR, as its three parts
outputFile(row) ==
    [date |-> safeDate(row),
     name |-> safeFilename(IF row.NAME = <<>> THEN NONAME ELSE row.NAME),
     job |-> safeFilename(IF row.JOB_NO = <<>> THEN NOJOBNO ELSE row.JOB_NO)]

Paths == {outputFile(r) : r \in Rows}

SheetsUpTo(n) == UNION {[1..k -> Rows] : k \in 0..n}

---------------------------------------------------------------------------
(* Batch generator: retention window and trailing cap *)

\* an option that minimist parsed as a number, or an environment variable
\* holding a number; set = FALSE when it is not given
Opt(vals) == [set : {TRUE}, val : vals] \cup {[set |-> FALSE, val |-> 0]}
Absent == [set |-> FALSE, val |-> 0]

DefaultDays == 7

\* DAYS = Number(argv.days || process.env.DEFAULT_DAYS || 7): a numeric
\* option 0 is falsy, a non-empty environment string is truthy
DAYS(opts) ==
    IF opts.days.set /\ opts.days.val # 0 THEN opts.days.val
    ELSE IF opts.DEFAULT_DAYS.set THEN opts.DEFAULT_DAYS.val
    ELSE DefaultDays

\* LAST_N = Number(argv.last || 0)
LAST_N(opts) ==
    IF opts.last.set /\ opts.last.val # 0 THEN opts.last.val ELSE 0

\* cutoff = now - DAYS * 24 * 60 * 60 * 1000
cutoff(now, days) == [day |-> now.day - days, sec |-> now.sec]

chosenDate_byCutoff(dateStr, cut) ==
    LET str == trim(dateStr)
    IN IF dateStr # <<>> /\ matchNumeric(str)
          /\ numericRule(str) # none /\ numericRule_monthFirst(str) # none
          /\ ~notBefore(getTime(numericRule(str).date), cut)
          /\ notBefore(getTime(numericRule_monthFirst(str).date), cut)
       THEN [date |-> numericRule_monthFirst(str).date, kind |-> "mdy"]
       ELSE parseDateDeterministic(dateStr)

\* the days filter: parsed = parseDateDeterministic(dateStr),
\* chosenDate = parsed.date
chosenDate(dateStr, cut) == parseDateDeterministic(dateStr)

keep_orUndated(row, cut) ==
    LET parsed == chosenDate(row.DATE, cut)
    IN parsed.date = NoDate \/ notBefore(getTime(parsed.date), cut)

keep_after(row, cut) ==
    LET parsed == chosenDate(row.DATE, cut)
    IN parsed.date # NoDate /\ ~notBefore(cut, getTime(parsed.date))

\* keep = chosenDate && chosenDate.getTime() >= cutoff
keep(row, cut) ==
    LET parsed == chosenDate(row.DATE, cut)
    IN parsed.date # NoDate /\ notBefore(getTime(parsed.date), cut)

\* if (DAYS > 0) { ... rows = kept }: the positions in the sheet of the rows
\* that stay, in sheet order
daysFilter(sheet, days, now) ==
    LET all == [i \in 1..Len(sheet) |-> i]
    IN IF days > 0
       THEN SelectSeq(all, LAMBDA i : keep(sheet[i], cutoff(now, days)))
       ELSE all

lastN_leading(rows, n) ==
    IF n > 0 THEN SubSeq(rows, 1, IF n < Len(rows) THEN n ELSE Len(rows))
    ELSE rows

\* if (LAST_N > 0) rows = rows.slice(-LAST_N)
lastN(rows, n) ==
    IF n > 0
    THEN SubSeq(rows, (IF Len(rows) > n THEN Len(rows) - n ELSE 0) + 1, Len(rows))
    ELSE rows

\* What the environment does to one createDocx call
Envs == {"ok", "notemplate", "render", "write"}

createDocx_alwaysWrite(row, exists, force, dry, env) ==
    IF env = "notemplate"
    THEN [threw |-> TRUE, ensured |-> FALSE, skipped |-> FALSE, wrote |-> FALSE]
    ELSE IF env = "render"
    THEN [threw |-> TRUE, ensured |-> TRUE, skipped |-> FALSE, wrote |-> FALSE]
    ELSE IF safeDate(row) # nodate /\ ~FINAL_DATE_REGEX(safeDate(row))
    THEN [threw |-> TRUE, ensured |-> TRUE, skipped |-> FALSE, wrote |-> FALSE]
    ELSE IF dry
    THEN [threw |-> FALSE, ensured |-> TRUE, skipped |-> FALSE, wrote |-> FALSE]
    ELSE IF env = "write"
    THEN [threw |-> TRUE, ensured |-> TRUE, skipped |-> FALSE, wrote |-> FALSE]
    ELSE [threw |-> FALSE, ensured |-> TRUE, skipped |-> FALSE, wrote |-> TRUE]

createDocx_skipIgnoresForce(row, exists, force, dry, env) ==
    IF env = "notemplate"
    THEN [threw |-> TRUE, ensured |-> FALSE, skipped |-> FALSE, wrote |-> FALSE]
    ELSE IF env = "render"
    THEN [threw |-> TRUE, ensured |-> TRUE, skipped |-> FALSE, wrote |-> FALSE]
    ELSE IF safeDate(row) # nodate /\ ~FINAL_DATE_REGEX(safeDate(row))
    THEN [threw |-> TRUE, ensured |-> TRUE, skipped |-> FALSE, wrote |-> FALSE]
    ELSE IF exists
    THEN [threw |-> FALSE, ensured |-> TRUE, skipped |-> TRUE, wrote |-> FALSE]
    ELSE IF dry
    THEN [threw |-> FALSE, ensured |-> TRUE, skipped |-> FALSE, wrote |-> FALSE]
    ELSE IF env = "write"
    THEN [threw |-> TRUE, ensured |-> TRUE, skipped |-> FALSE, wrote |-> FALSE]
    ELSE [threw |-> FALSE, ensured |-> TRUE, skipped |-> FALSE, wrote |-> TRUE]

\* createDocx(data): the outcome of one call, given whether the target
\* exists, the FORCE and DRY flags and the environment.
\*   threw   - the call threw (template missing, render error, filename
\*             date check, write error)
\*   ensured - fs.ensureDirSync(OUTPUT_DIR) ran
\*   skipped - the returned skipped field
\*   wrote   - fs.writeFileSync(outputFile, buf) ran and succeeded
createDocx(row, exists, force, dry, env) ==
    IF env = "notemplate"
    THEN [threw |-> TRUE, ensured |-> FALSE, skipped |-> FALSE, wrote |-> FALSE]
    ELSE IF env = "render"
    THEN [threw |-> TRUE, ensured |-> TRUE, skipped |-> FALSE, wrote |-> FALSE]
    ELSE IF safeDate(row) # nodate /\ ~FINAL_DATE_REGEX(safeDate(row))
    THEN [threw |-> TRUE, ensured |-> TRUE, skipped |-> FALSE, wrote |-> FALSE]
    ELSE IF exists /\ ~force
    THEN [threw |-> FALSE, ensured |-> TRUE, skipped |-> TRUE, wrote |-> FALSE]
    ELSE IF dry
    THEN [threw |-> FALSE, ensured |-> TRUE, skipped |-> FALSE, wrote |-> FALSE]
    ELSE IF env = "write"
    THEN [threw |-> TRUE, ensured |-> TRUE, skipped |-> FALSE, wrote |-> FALSE]
    ELSE [threw |-> FALSE, ensured |-> TRUE, skipped |-> FALSE, wrote |-> TRUE]

---------------------------------------------------------------------------
(* Batch generator: lock marker and process life cycle *)

lockCheck_absent(l) == FALSE

\* fs.existsSync(LOCK_PATH) at start-up: TRUE means "another run appears
\* active", and the process exits with status 1
lockCheck(l) == l # 0


\* removeLock(): if the marker exists, unlink it (whoever wrote it)
removeLock(l) == IF l # 0 THEN 0 ELSE l

\* process.exit / natural end of the process: the 'exit' listener
\* (removeLock) runs only if it has been registered
processExit(hooked, l) == IF hooked THEN removeLock(l) ELSE l

\* the options of a run that gives none: no days, DEFAULT_DAYS or last
NoOpts == [days |-> Absent, DEFAULT_DAYS |-> Absent, last |-> Absent]

\* Date.now() before the filter has read it
NoNow == [day |-> 0, sec |-> 0]

\* sheet: the rows getRows() returned; kept: the positions of the rows the
\* days filter kept; handed: those the loop was given; rows: those the loop
\* has still to visit
Fresh == [pc |-> "off", FORCE |-> FALSE, DRY |-> FALSE, opts |-> NoOpts,
          hooked |-> FALSE, created |-> FALSE, now |-> NoNow, sheet |-> <<>>,
          kept |-> <<>>, handed |-> <<>>, rows |-> <<>>, log |-> <<>>,
          effects |-> {}, fetched |-> FALSE, ended |-> "", code |-> 0]

\* the process is past lock acquisition: awaiting getRows or in the loop
Running(p) == proc[p].pc \in {"fetch", "gen"}

\* the process ends through process.exit or by running out of work
Exit(p, why, status, l) ==
    /\ lock' = processExit(proc[p].hooked, l)
    /\ proc' = [proc EXCEPT
                  ![p].pc = "exited", ![p].ended = why, ![p].code = status,
                  ![p].rows = <<>>, ![p].log = <<>>,
                  ![p].opts = NoOpts, ![p].now = NoNow, ![p].sheet = <<>>,
                  ![p].kept = <<>>, ![p].handed = <<>>,
                  ![p].effects = IF lock # 0 /\ lock' = 0
                                 THEN @ \cup {"unmarker"} ELSE @]

\* node fillFromSheet.js [--force] [--dry] [--days n] [--last n], with or
\* without DEFAULT_DAYS in the environment
Start(p, force, dry, opts) ==
    /\ proc[p].pc \in {"off", "exited"}
    /\ proc' = [proc EXCEPT ![p] = [Fresh EXCEPT !.pc = "check",
                                                 !.FORCE = force,
                                                 !.DRY = dry,
                                                 !.opts = opts]]
    /\ UNCHANGED <<lock, outDir, files, resolved, pollVars, nameVars, pruneVars, restVars>>

\* if (fs.existsSync(LOCK_PATH)) { console.error(...); process.exit(1); }
Check(p) ==
    /\ proc[p].pc = "check"
    /\ IF lockCheck(lock)
       THEN Exit(p, "contention", 1, lock)
       ELSE /\ proc' = [proc EXCEPT ![p].pc = "mark"]
            /\ lock' = lock
    /\ UNCHANGED <<outDir, files, resolved, pollVars, nameVars, pruneVars, restVars>>

\* try { fs.writeFileSync(LOCK_PATH, String(process.pid)); } catch (e) {}
\* The write creates the marker or replaces the content of one that another
\* process has created since the check.
Mark(p) ==
    /\ proc[p].pc = "mark"
    /\ lock' = p
    /\ proc' = [proc EXCEPT ![p].pc = "hooks",
                            ![p].created = TRUE,
                            ![p].effects = @ \cup {"marker"}]
    /\ UNCHANGED <<outDir, files, resolved, pollVars, nameVars, pruneVars, restVars>>

\* process.on('exit', removeLock); process.on('SIGINT', ...);
\* process.on('SIGTERM', ...); then the main block starts and awaits getRows()
Hooks(p) ==
    /\ proc[p].pc = "hooks"
    /\ proc' = [proc EXCEPT ![p].pc = "fetch", ![p].hooked = TRUE]
    /\ UNCHANGED <<lock, outDir, files, resolved, pollVars, nameVars, pruneVars, restVars>>

\* the resolutions found[s] that a step ("filter" or "file") has computed
\* for raw strings, added to those seen so far
Resolve(seen, found, step) ==
    [s \in GenRaws |->
        IF s \in DOMAIN found
        THEN seen[s] \cup {[step |-> step, parsed |-> found[s]]}
        ELSE seen[s]]

\* let rows = await getRows(); if (!rows.length) { ...; return; }
\* An empty sheet returns early: finally { removeLock() }, then the process
\* ends. Otherwise the days filter and the LAST_N slice run at the time now,
\* and what is left enters the (synchronous) generation loop.
FetchRows(p, sheet, now) ==
    /\ proc[p].pc = "fetch"
    /\ missing \notin {"sheet", "creds"}
    /\ IF sheet = <<>>
       THEN /\ Exit(p, "empty", 0, removeLock(lock))
            /\ UNCHANGED resolved
       ELSE LET days == DAYS(proc[p].opts)
                kept == daysFilter(sheet, days, now)
                rows == lastN(kept, LAST_N(proc[p].opts))
            IN /\ proc' = [proc EXCEPT ![p].pc = "gen", ![p].fetched = TRUE,
                                       ![p].now = IF days > 0 THEN now ELSE NoNow,
                                       ![p].sheet = sheet,
                                       ![p].kept = kept, ![p].handed = rows,
                                       ![p].rows = rows]
               /\ resolved' =
                     IF days > 0
                     THEN Resolve(resolved,
                                  [s \in {sheet[i].DATE : i \in 1..Len(sheet)} |->
                                      chosenDate(s, cutoff(now, days))],
                                  "filter")
                     ELSE resolved
               /\ lock' = lock
    /\ UNCHANGED <<outDir, files, pollVars, nameVars, pruneVars, restVars>>

\* getRows() throws (missing sheet id or credentials file, request error):
\* catch { process.exit(1) }
FetchFail(p) ==
    /\ proc[p].pc = "fetch"
    /\ Exit(p, "fetcherror", 1, lock)
    /\ UNCHANGED <<outDir, files, resolved, pollVars, nameVars, pruneVars, restVars>>

\* one iteration of: for (const [i, row] of rows.entries()) {
\*   const out = createDocx(tplData); if (out && !out.skipped) generatedCount++; }
\* A throw leaves the loop for catch { process.exit(1) }; rows then keeps the
\* records after the failing one, which are never processed.
GenRow(p, env) ==
    /\ proc[p].pc = "gen"
    /\ proc[p].rows # <<>>
    /\ missing = "template" => env = "notemplate"
    /\ \E row \in {proc[p].sheet[Head(proc[p].rows)]} :
       \E path \in {outputFile(row)} :
       \E out \in {createDocx(row, outDir /\ files[path], proc[p].FORCE,
                              proc[p].DRY, env)} :
          LET exists == outDir /\ files[path]
              made == IF out.ensured /\ ~outDir THEN {"mkdir"} ELSE {}
              written == IF out.wrote THEN {"write"} ELSE {}
          IN /\ outDir' = (outDir \/ out.ensured)
             /\ files' = IF out.wrote THEN [files EXCEPT ![path] = TRUE] ELSE files
             /\ resolved' =
                   IF env \in {"notemplate", "render"} THEN resolved
                   ELSE Resolve(resolved,
                                [s \in {row.DATE} |-> parseDateDeterministic(s)],
                                "file")
             /\ IF out.threw
                THEN /\ lock' = processExit(proc[p].hooked, lock)
                     /\ proc' = [proc EXCEPT
                          ![p].pc = "exited", ![p].ended = "generror",
                          ![p].code = 1,
                          ![p].rows = Tail(@), ![p].log = <<>>,
                          ![p].opts = NoOpts, ![p].now = NoNow,
                          ![p].sheet = <<>>,
                          ![p].kept = <<>>, ![p].handed = <<>>,
                          ![p].effects = @ \cup made \cup
                              (IF lock # 0 /\ lock' = 0 THEN {"unmarker"} ELSE {})]
                ELSE /\ lock' = lock
                     /\ proc' = [proc EXCEPT
                          ![p].rows = Tail(@),
                          ![p].effects = @ \cup made \cup written,
                          ![p].log = Append(@, [row |-> Head(proc[p].rows),
                                                path |-> path,
                                                existed |-> exists,
                                                skipped |-> out.skipped,
                                                wrote |-> out.wrote])]
    /\ UNCHANGED <<pollVars, nameVars, pruneVars, restVars>>

\* the loop is over: "Success!", finally { removeLock() }, the process ends
Finish(p) ==
    /\ proc[p].pc = "gen"
    /\ proc[p].rows = <<>>
    /\ Exit(p, "done", 0, removeLock(lock))
    /\ UNCHANGED <<outDir, files, resolved, pollVars, nameVars, pruneVars, restVars>>

\* SIGINT or SIGTERM. With the listeners registered the handler calls
\* process.exit(1) once the event loop runs (the process is awaiting
\* getRows); before they are registered the default disposition ends the
\* process with no 'exit' event.
Signal(p) ==
    /\ \/ proc[p].pc = "fetch" /\ proc[p].hooked
       \/ proc[p].pc \in {"check", "mark", "hooks"} /\ ~proc[p].hooked
    /\ Exit(p, "signal", IF proc[p].hooked THEN 1 ELSE 130, lock)
    /\ UNCHANGED <<outDir, files, resolved, pollVars, nameVars, pruneVars, restVars>>

---------------------------------------------------------------------------
(* Poller *)

Reverse(q) == [i \in 1..Len(q) |-> q[Len(q) + 1 - i]]

\* listSubmissions(): ...&limit=50&orderby=created_at lists the submissions
\* newest first ("submissions are newest-first"); ids grow with creation
Listings(n) == {[i \in 1..n |-> n + 1 - i]}

\* What the environment does to one generate(mapped) call:
\*   module  - server/fillTemplate.js exists
\*   call    - "ok": a function export was found and returned (or resolved);
\*             "throws": it threw or rejected; "none": require failed or no
\*             callable export
\*   spawn0  - the spawned `node fillTemplate.js` exits with code 0
GenEnvs == [module : BOOLEAN, call : {"ok", "throws", "none"}, spawn0 : BOOLEAN]

\* generate(mapped): the boolean it resolves to; it catches every error of
\* the module and of the spawn, so it never rejects
generate(env) ==
    IF ~env.module THEN FALSE
    ELSE IF env.call = "ok" THEN TRUE
    ELSE env.spawn0

\* if (last && sid <= last) continue;
accepts(sid, last) == ~(last # 0 /\ sid <= last)

\* the submissions of the reversed listing that the loop hands to generate
toProcess(submissions, last) ==
    SelectSeq(Reverse(submissions), LAMBDA sid : accepts(sid, last))

afterGenerate_break(todo, ok) == IF ok THEN Tail(todo) ELSE <<>>

\* the submissions the loop goes on to after generate() settled for
\* Head(todo): a false result is logged and the loop continues
afterGenerate(todo, ok) == Tail(todo)

\* kept, offered: the submissions the loop of this cycle accepted, and those
\* it has passed to generate(); complete: a finished cycle passed every
\* accepted submission to generate()
Idle == [pc |-> "idle", todo |-> <<>>, last |-> 0, newestSeen |-> 0,
         kept |-> {}, offered |-> {}, complete |-> TRUE]

InFlight(c) == cyc[c].pc \in {"fetch", "gen"}

\* genState when generate(mapped) is called for sid
Offer(g, sid) ==
    [g EXCEPT ![sid] = IF @ \in {"ok", "again"} THEN "again" ELSE @]

\* genState when that call has resolved to ok
Settle(g, sid, ok) ==
    [g EXCEPT ![sid] = IF @ = "again" THEN "again"
                       ELSE IF ok THEN "ok"
                       ELSE IF @ = "ok" THEN "ok" ELSE "failed"]

\* a new submission arrives at the form
Submit ==
    /\ nSubs < MaxId
    /\ nSubs' = nSubs + 1
    /\ UNCHANGED <<lastFile, cyc, timerOn, genState, audit, genVars, nameVars,
                   pruneVars, restVars>>

\* setInterval fires: processNew() is called and suspends in listSubmissions
Tick(c) ==
    /\ timerOn
    /\ cyc[c].pc \in {"idle", "done"}
    /\ \A d \in Cycles : d < c => InFlight(d)
    /\ cyc' = [cyc EXCEPT ![c] = [Idle EXCEPT !.pc = "fetch"]]
    /\ UNCHANGED <<nSubs, lastFile, timerOn, genState, audit, genVars, nameVars,
                   pruneVars, restVars>>

\* end of processNew: if (newestSeen && newestSeen !== last)
\* writeLastProcessed(newestSeen); in run(), the first processNew() is
\* awaited and then the interval timer is registered
EndCycle(c, rec) ==
    /\ cyc' = [cyc EXCEPT ![c] = [Idle EXCEPT !.pc = "done",
                                              !.complete = (rec.offered = rec.kept)]]
    /\ lastFile' = IF rec.newestSeen # 0 /\ rec.newestSeen # rec.last
                   THEN rec.newestSeen ELSE lastFile
    /\ timerOn' = TRUE

\* listSubmissions() resolves with the listing; the loop runs up to the
\* first await generate(mapped)
FetchOk(c, submissions) ==
    /\ cyc[c].pc = "fetch"
    /\ IF submissions = <<>>
       THEN /\ EndCycle(c, cyc[c])
            /\ UNCHANGED genState
       ELSE LET last == lastFile
                todo == toProcess(submissions, last)
                rec == [cyc[c] EXCEPT !.last = last, !.newestSeen = last,
                                      !.kept = {todo[i] : i \in 1..Len(todo)}]
            IN IF todo = <<>>
               THEN /\ EndCycle(c, rec)
                    /\ UNCHANGED genState
               ELSE /\ cyc' = [cyc EXCEPT ![c] =
                                 [rec EXCEPT !.pc = "gen", !.todo = todo,
                                             !.offered = {Head(todo)}]]
                    /\ genState' = Offer(genState, Head(todo))
                    /\ UNCHANGED <<lastFile, timerOn>>
    /\ UNCHANGED <<nSubs, audit, genVars, nameVars, pruneVars, restVars>>

FetchError_uncaught(c) ==
    /\ cyc[c].pc = "fetch"
    /\ cyc' = [cyc EXCEPT ![c] = [Idle EXCEPT !.pc = "done"]]
    /\ timerOn' = FALSE
    /\ UNCHANGED <<nSubs, lastFile, genState, audit, genVars, nameVars, pruneVars, restVars>>

\* listSubmissions() rejects: catch (err) { console.error('Poll error', ...) }
FetchError(c) ==
    /\ cyc[c].pc = "fetch"
    /\ EndCycle(c, cyc[c])
    /\ UNCHANGED <<nSubs, genState, audit, genVars, nameVars, pruneVars, restVars>>

\* appendRowToSheet(row), called and not awaited: with GOOGLE_SHEET_ID set
\* the append for the submission is now in flight
appendRowToSheet(a, sid) == [a EXCEPT ![sid] = "pending"]

\* await generate(mapped) settles for the submission at the head of todo:
\* if (ok) { newestSeen = sid; appendRowToSheet(row) }; then the loop
\* continues to the next await or ends
GenDone(c, ok) ==
    /\ cyc[c].pc = "gen"
    /\ missing = "module" => ~ok
    /\ audit' = IF ok THEN appendRowToSheet(audit, Head(cyc[c].todo)) ELSE audit
    /\ LET sid == Head(cyc[c].todo)
           rest == afterGenerate(cyc[c].todo, ok)
           rec == [cyc[c] EXCEPT
                     !.newestSeen = IF ok THEN sid ELSE @,
                     !.todo = rest]
           g == Settle(genState, sid, ok)
       IN IF rest = <<>>
          THEN /\ EndCycle(c, rec)
               /\ genState' = g
          ELSE /\ cyc' = [cyc EXCEPT ![c] =
                            [rec EXCEPT !.offered = @ \cup {Head(rest)}]]
               /\ genState' = Offer(g, Head(rest))
               /\ UNCHANGED <<lastFile, timerOn>>
    /\ UNCHANGED <<nSubs, genVars, nameVars, pruneVars, restVars>>

AppendSettle_unhandled(sid, result) ==
    /\ audit[sid] = "pending"
    /\ audit' = [audit EXCEPT ![sid] = result]
    /\ timerOn' = (timerOn /\ result = "ok")
    /\ cyc' = IF result = "ok" THEN cyc
              ELSE [c \in Cycles |-> IF InFlight(c) THEN [Idle EXCEPT !.pc = "done"]
                                     ELSE cyc[c]]
    /\ UNCHANGED <<nSubs, lastFile, genState, genVars, nameVars, pruneVars, restVars>>

\* the append in flight for a submission settles: sheetsHelper.appendRow
\* resolved ("ok"), or require('./append-to-sheets') or appendRow threw or
\* rejected ("failed"), which catch (err) { console.warn(...) } absorbs. An
\* append that never settles stays "pending".
AppendSettle(sid, result) ==
    /\ audit[sid] = "pending"
    /\ audit' = [audit EXCEPT ![sid] = result]
    /\ UNCHANGED <<nSubs, lastFile, cyc, timerOn, genState, genVars, nameVars,
                   pruneVars, restVars>>

---------------------------------------------------------------------------
(* File name computation of createDocx, on its own *)

\* "05/01/2026", "12/25/2026", "5/1/26", "0012-01-05"
Raw05Jan2026 == <<N(<<0, 5>>), S("/"), N(<<0, 1>>), S("/"), N(<<2, 0, 2, 6>>)>>
Raw12x25x2026 == <<N(<<1, 2>>), S("/"), N(<<2, 5>>), S("/"), N(<<2, 0, 2, 6>>)>>
Raw5Jan26 == <<N(<<5>>), S("/"), N(<<1>>), S("/"), N(<<2, 6>>)>>
Raw0012x01x05 == <<N(<<0, 0, 1, 2>>), S("-"), N(<<0, 1>>), S("-"), N(<<0, 5>>)>>

\* runs of digits in the first, second and third place of a numeric string
FirstGroups == {<<5>>, <<0, 5>>, <<1, 2>>, <<2, 9>>, <<3, 1>>, <<0>>,
                <<1, 2, 3>>, <<2, 0, 2, 6>>, <<2, 0, 2, 4>>, <<0, 0, 1, 2>>,
                <<0, 0, 5, 0>>}
SecondGroups == {<<1>>, <<0, 1>>, <<2>>, <<4>>, <<1, 2>>, <<1, 3>>, <<0>>, <<2, 5>>}
ThirdGroups == {<<5>>, <<0, 5>>, <<2, 6>>, <<2, 9>>, <<3, 1>>, <<9, 9, 9>>,
                <<2, 0, 2, 4>>, <<2, 0, 2, 5>>, <<2, 0, 2, 6>>, <<2, 0, 2, 6, 0>>}
GroupSeps == {"/", "-", " "}

NumericStrings ==
    {<<N(a), S(s1), N(b), S(s2), N(c)>> :
        a \in FirstGroups, s1 \in GroupSeps, b \in SecondGroups,
        s2 \in GroupSeps, c \in ThirdGroups}

\* "5 Jan 2026", "5th January 2026", "January 5 2026", "31 APRIL 2026",
\* "Feb 29th, 2025", "29 Feb 2024", "Sept 1 2026", "5 Foo 2026",
\* "5 Jan 0050", " 5.1.2026 ", "5/1", "hello", " "
OtherStrings ==
    {<<N(<<5>>), S(" "), W("Jan"), S(" "), N(<<2, 0, 2, 6>>)>>,
     <<N(<<5>>), W("th"), S(" "), W("January"), S(" "), N(<<2, 0, 2, 6>>)>>,
     <<W("January"), S(" "), N(<<5>>), S(" "), N(<<2, 0, 2, 6>>)>>,
     <<N(<<3, 1>>), S(" "), W("APRIL"), S(" "), N(<<2, 0, 2, 6>>)>>,
     <<W("Feb"), S(" "), N(<<2, 9>>), W("th"), S(","), S(" "), N(<<2, 0, 2, 5>>)>>,
     <<N(<<2, 9>>), S(" "), W("Feb"), S(" "), N(<<2, 0, 2, 4>>)>>,
     <<W("Sept"), S(" "), N(<<1>>), S(" "), N(<<2, 0, 2, 6>>)>>,
     <<N(<<5>>), S(" "), W("Foo"), S(" "), N(<<2, 0, 2, 6>>)>>,
     <<N(<<5>>), S(" "), W("Jan"), S(" "), N(<<0, 0, 5, 0>>)>>,
     <<S(" "), N(<<5>>), S("."), N(<<1>>), S("."), N(<<2, 0, 2, 6>>), S(" ")>>,
     <<N(<<5>>), S("/"), N(<<1>>)>>,
     <<W("hello")>>,
     <<S(" ")>>,
     RawEmpty}

DateStrings == NumericStrings \cup OtherStrings

\* "J Smith", "J  Smith", " J ", "a/b", "..\x", "a:b" and ""
Names == {NameJSmith,
          <<W("J"), S(" "), S(" "), W("Smith")>>,
          <<S(" "), W("J"), S(" ")>>,
          <<W("a"), S("/"), W("b")>>,
          <<S("."), S("."), S("\\"), W("x")>>,
          <<W("a"), S(":"), W("b")>>,
          <<>>}

\* the records whose file name is computed: every date string with one
\* name, and every name and job number with one date string
Inputs ==
    [DATE : DateStrings, NAME : {NameJSmith}, JOB_NO : {Job42}]
    \cup [DATE : {Raw5Jan26}, NAME : Names, JOB_NO : Names \cup {Job42}]

NoInput == [DATE |-> <<>>, NAME |-> <<>>, JOB_NO |-> <<>>]
NoResult == [called |-> FALSE, parsed |-> none, valid |-> FALSE,
             file |-> [date |-> <<>>, name |-> <<>>, job |-> <<>>]]

\* createDocx(data) from rawDateStr to outputFile: the parse result, whether
\* the date token passes the D-M-YYYY check, and the file name
NameFile(data) ==
    /\ ~res.called
    /\ inp' = data
    /\ res' = [called |-> TRUE,
               parsed |-> parseDateDeterministic(data.DATE),
               valid |-> (safeDate(data) = nodate \/ FINAL_DATE_REGEX(safeDate(data))),
               file |-> outputFile(data)]
    /\ UNCHANGED <<genVars, pollVars, pruneVars, restVars>>

---------------------------------------------------------------------------
(* pruneOutputDir of the pruning generator *)

\* fs.readdirSync(OUTPUT_DIR), in the order it lists the names
PruneNames == <<"a.docx", "b.DOCX", "c.docx", "notes.txt">>
NameSet == {PruneNames[i] : i \in 1..Len(PruneNames)}

\* f.name.toLowerCase().endsWith('.docx')
isDocx(name) == name \in {"a.docx", "b.DOCX", "c.docx"}

\* dir[name] is the mtime of the file, 0 when there is no such file
Mtimes == 0..MaxMtime

RECURSIVE insertOldestFirst(_, _, _)
insertOldestFirst(sorted, f, d) ==
    IF sorted = <<>> THEN <<f>>
    ELSE IF d[Head(sorted)] <= d[f]
    THEN <<Head(sorted)>> \o insertOldestFirst(Tail(sorted), f, d)
    ELSE <<f>> \o sorted

RECURSIVE sortByMtime_oldestFirst(_, _)
sortByMtime_oldestFirst(list, d) ==
    IF list = <<>> THEN <<>>
    ELSE insertOldestFirst(sortByMtime_oldestFirst(SubSeq(list, 1, Len(list) - 1), d),
                           list[Len(list)], d)

RECURSIVE insertByMtime(_, _, _)
insertByMtime(sorted, f, d) ==
    IF sorted = <<>> THEN <<f>>
    ELSE IF d[Head(sorted)] >= d[f]
    THEN <<Head(sorted)>> \o insertByMtime(Tail(sorted), f, d)
    ELSE <<f>> \o sorted

\* .sort((a, b) => b.mtime - a.mtime): newest first, files of equal mtime
\* in the order of the listing (the sort is stable)
RECURSIVE sortByMtime(_, _)
sortByMtime(list, d) ==
    IF list = <<>> THEN <<>>
    ELSE insertByMtime(sortByMtime(SubSeq(list, 1, Len(list) - 1), d),
                       list[Len(list)], d)

IdlePrune == [pc |-> "idle", keepN |-> 0, DRY |-> FALSE,
              before |-> [f \in NameSet |-> 0], files |-> <<>>,
              todo |-> <<>>, failed |-> {}]

\* a file of OUTPUT_DIR is written, touched or removed between runs (t = 0)
PutFile(f, t) ==
    /\ pr.pc \in {"idle", "done", "threw"}
    /\ dir' = [dir EXCEPT ![f] = t]
    /\ pr' = IdlePrune
    /\ UNCHANGED <<genVars, pollVars, nameVars, restVars>>

\* pruneOutputDir(keepN) up to the for loop: the early returns, the listing
\* of the .docx files with their mtime, the sort and the slice. bad is a
\* file for which fs.statSync throws ("none": it throws for no file); the
\* throw leaves pruneOutputDir and ends the run in catch { process.exit(1) }.
\* A missing OUTPUT_DIR returns like an empty one.
PruneList(keepN, dry, bad) ==
    /\ pr.pc = "idle"
    /\ LET listed == SelectSeq(PruneNames, LAMBDA f : dir[f] # 0 /\ isDocx(f))
           sorted == sortByMtime(listed, dir)
           toDelete == SubSeq(sorted, keepN + 1, Len(sorted))
           call == [IdlePrune EXCEPT !.keepN = keepN, !.DRY = dry, !.before = dir]
       IN pr' = IF keepN <= 0 THEN [call EXCEPT !.pc = "done"]
                ELSE IF \E i \in 1..Len(listed) : listed[i] = bad
                THEN [call EXCEPT !.pc = "threw"]
                ELSE IF Len(sorted) <= keepN
                THEN [call EXCEPT !.pc = "done", !.files = sorted]
                ELSE [call EXCEPT !.pc = "loop", !.files = sorted,
                                  !.todo = toDelete]
    /\ UNCHANGED <<dir, genVars, pollVars, nameVars, restVars>>

\* one iteration of: for (const f of toDelete) { try { if (DRY) log
\* else fs.unlinkSync(f.full) } catch (err) { console.warn(...) } }
PruneOne(fails) ==
    /\ pr.pc = "loop"
    /\ LET f == Head(pr.todo)
           unlinked == ~pr.DRY /\ ~fails
       IN /\ dir' = IF unlinked THEN [dir EXCEPT ![f] = 0] ELSE dir
          /\ pr' = [pr EXCEPT
                      !.todo = Tail(@),
                      !.failed = IF ~pr.DRY /\ fails THEN @ \cup {f} ELSE @,
                      !.pc = IF Tail(pr.todo) = <<>> THEN "done" ELSE "loop"]
    /\ UNCHANGED <<genVars, pollVars, nameVars, restVars>>

---------------------------------------------------------------------------
(* generate(mapped) of the poller and main(mapped) of fillTemplate.js *)

\* the value of a key that mapped does not have
undefined == <<[t |-> "undef", d |-> <<>>, s |-> ""]>>

\* the keys a mapped submission may have (answer names, and _created_at from
\* mapSubmission) and the values they may have: absent, '', or a string
MappedKeys == {"name", "Full Name", "date", "_created_at", "JOB_NO", "job_no"}
MappedValues(k) ==
    {undefined, <<>>} \cup
    (IF k \in {"name", "Full Name"} THEN {NameJSmith}
     ELSE IF k \in {"date", "_created_at"} THEN {Raw5Jan2026}
     ELSE {Job42})
Mappings == {m \in [MappedKeys -> UNION {MappedValues(k) : k \in MappedKeys}] :
                \A k \in MappedKeys : m[k] \in MappedValues(k)}

\* mapped = {}
EmptyMapped == [k \in MappedKeys |-> undefined]

\* k.toLowerCase() and k.toUpperCase() on the keys main looks up
lowerKey(k) ==
    CASE k \in {"NAME", "name"} -> "name"
      [] k = "Full Name" -> "full name" [] k = "FullName" -> "fullname"
      [] k \in {"DATE", "date"} -> "date" [] k = "_created_at" -> "_created_at"
      [] k \in {"JOB_NO", "job_no"} -> "job_no" [] k = "Job No" -> "job no"
      [] k \in {"jobNo", "JOBNO"} -> "jobno"
      [] OTHER -> k
upperKey(k) ==
    CASE k \in {"NAME", "name"} -> "NAME"
      [] k = "Full Name" -> "FULL NAME" [] k = "FullName" -> "FULLNAME"
      [] k \in {"DATE", "date"} -> "DATE" [] k = "_created_at" -> "_CREATED_AT"
      [] k \in {"JOB_NO", "job_no"} -> "JOB_NO" [] k = "Job No" -> "JOB NO"
      [] k \in {"jobNo", "JOBNO"} -> "JOBNO"
      [] OTHER -> k

\* mapped[k] !== undefined && mapped[k] !== null && String(mapped[k]).length
has(mapped, k) ==
    k \in DOMAIN mapped /\ mapped[k] # undefined /\ mapped[k] # <<>>

\* get(keys, fallback) of main: for each key, the key itself, then its
\* lower-case and its upper-case form
RECURSIVE get(_, _, _)
get(mapped, keys, fallback) ==
    IF keys = <<>> THEN fallback
    ELSE LET k == Head(keys)
         IN IF has(mapped, k) THEN mapped[k]
            ELSE IF has(mapped, lowerKey(k)) THEN mapped[lowerKey(k)]
            ELSE IF has(mapped, upperKey(k)) THEN mapped[upperKey(k)]
            ELSE get(mapped, Tail(keys), fallback)

\* 'No name provided', new Date().toISOString().slice(0, 10) and 'unknown'
NoNameProvided == <<W("No"), S(" "), W("name"), S(" "), W("provided")>>
Today == <<N(<<2, 0, 2, 6>>), S("-"), N(<<0, 1>>), S("-"), N(<<1, 2>>)>>
Unknown == <<W("unknown")>>

\* the data object main renders: NAME, DATE and JOB_NO
mainData(mapped) ==
    [NAME |-> get(mapped, <<"NAME", "name", "Full Name", "FullName">>, NoNameProvided),
     DATE |-> get(mapped, <<"DATE", "date", "_created_at">>, Today),
     JOB_NO |-> get(mapped, <<"JOB_NO", "job_no", "Job No", "jobNo", "JOBNO">>, Unknown)]

RECURSIVE blanksToUnderscore(_)
blanksToUnderscore(str) ==
    IF str = <<>> THEN <<>>
    ELSE IF isBlank(Head(str))
    THEN <<S("_")>> \o blanksToUnderscore(trimLeft(str))
    ELSE <<Head(str)>> \o blanksToUnderscore(Tail(str))

\* safe(s) of main: String(s).replace(/[\/\\:?<>|"]/g, '-').replace(/\s+/g, '_')
safe(str) ==
    blanksToUnderscore([i \in 1..Len(str) |->
        IF isSep(str[i], {"/", "\\", ":", "?", "<", ">", "|", "\""})
        THEN S("-") ELSE str[i]])

\* async function main(mapped = {}): its parameter list
mainParams == <<[name |-> "mapped", hasDefault |-> TRUE]>>

\* fn.length: the number of parameters before the first one that has a
\* default value
RECURSIVE fnLength(_)
fnLength(params) ==
    IF params = <<>> \/ Head(params).hasDefault THEN 0
    ELSE 1 + fnLength(Tail(params))

\* fn.length > 0 ? fn(mapped) : fn(): the argument list of the call
callArgs(params, mapped) == IF fnLength(params) > 0 THEN <<mapped>> ELSE <<>>

\* the binding of main's parameter for an argument list: the default value
\* {} when the argument is missing
bound(args) == IF args = <<>> THEN EmptyMapped ELSE args[1]

NoData == [NAME |-> <<>>, DATE |-> <<>>, JOB_NO |-> <<>>]
NoCall == [called |-> FALSE, mapped |-> EmptyMapped, template |-> FALSE,
           calls |-> <<>>, rendered |-> NoData, file |-> <<>>, ok |-> FALSE]

\* generate(mapped) with server/fillTemplate.js in place, whose export is
\* main. The export is called in this process; main throws when the
\* template is missing, and then `node fillTemplate.js` is spawned with
\* JSON.stringify(mapped) on its stdin, which calls main(JSON.parse(input))
\* and exits with status 1 when main throws. main renders data, writes
\* worksheet_<JOB_NO>_<DATE>.docx and returns.
Generate(mapped, template) ==
    /\ ~genCall.called
    /\ LET first == [via |-> "export", args |-> callArgs(mainParams, mapped)]
           second == [via |-> "spawn", args |-> <<mapped>>]
           used == mainData(bound(first.args))
       IN genCall' = [called |-> TRUE, mapped |-> mapped, template |-> template,
                   calls |-> IF template THEN <<first>> ELSE <<first, second>>,
                   rendered |-> IF template THEN used ELSE NoData,
                   file |-> IF template
                            THEN <<safe(used.JOB_NO), safe(used.DATE)>> ELSE <<>>,
                   ok |-> template]
    /\ UNCHANGED <<genVars, pollVars, nameVars, pruneVars, missing, heur, hook>>

---------------------------------------------------------------------------
(* Heuristic generator: parseDateCandidates and the days filter *)

\* /^(\d{1,2})[\/\-\.\s](\d{1,2})[\/\-\.\s](\d{2,4})$/
matchParts(str) ==
    /\ Len(str) = 5
    /\ digitRun(str[1], 1, 2) /\ isSep(str[2], DateSeps)
    /\ digitRun(str[3], 1, 2) /\ isSep(str[4], DateSeps)
    /\ digitRun(str[5], 2, 4)

\* year = p3 < 100 ? (2000 + p3) : p3
partsYear(str) ==
    IF Number(str[5].d) < 100 THEN 2000 + Number(str[5].d) ELSE Number(str[5].d)

\* the DMY candidate (day = p1, month = p2) of a string that matches, if any
dmyCandidate(str) ==
    LET p1 == Number(str[1].d)
        p2 == Number(str[3].d)
        dmy == newDate(partsYear(str), p2 - 1, p1)
    IN IF p2 >= 1 /\ p2 <= 12 /\ p1 >= 1 /\ p1 <= 31
          /\ roundTrips(dmy, partsYear(str), p2, p1)
       THEN <<[kind |-> "dmy", date |-> dmy]>> ELSE <<>>

\* the MDY candidate (month = p1, day = p2) of a string that matches, if any
mdyCandidate(str) ==
    LET p1 == Number(str[1].d)
        p2 == Number(str[3].d)
        mdy == newDate(partsYear(str), p1 - 1, p2)
    IN IF p1 >= 1 /\ p1 <= 12 /\ p2 >= 1 /\ p2 <= 31
          /\ roundTrips(mdy, partsYear(str), p1, p2)
       THEN <<[kind |-> "mdy", date |-> mdy]>> ELSE <<>>

\* new Date(str) of a string that is not in the ISO format is left to the
\* engine: Invalid Date (NoDate here), or for a string that matches the
\* numeric pattern the month-first reading with a two-digit year below 50
\* in 2000 and others in 1900, and a day beyond the end of the month
\* carried into the next one
nativeDates(str) ==
    {NoDate} \cup
    (IF matchParts(str) /\ Number(str[1].d) \in 1..12 /\ Number(str[3].d) \in 1..31
     THEN LET p3 == Number(str[5].d)
              year == IF Len(str[5].d) > 2 THEN p3
                      ELSE IF p3 < 50 THEN 2000 + p3 ELSE 1900 + p3
          IN {makeDay(year, Number(str[1].d), Number(str[3].d))}
     ELSE {})

\* candidates.find(c => c.kind === kind), as the sequence of those found
findKind(candidates, kind) == SelectSeq(candidates, LAMBDA c : c.kind = kind)

NoCandidates == [date |-> NoDate, candidates |-> <<>>, chosenKind |-> "null"]

\* parseDateCandidates(s), where native is what new Date(str) gave
parseDateCandidates(s, native) ==
    IF s = <<>> THEN NoCandidates
    ELSE LET str == trim(s)
             candidates ==
                 (IF native # NoDate THEN <<[kind |-> "native", date |-> native]>>
                  ELSE <<>>)
                 \o (IF matchParts(str) THEN dmyCandidate(str) \o mdyCandidate(str)
                     ELSE <<>>)
             dmyC == findKind(candidates, "dmy")
             nativeC == findKind(candidates, "native")
             chosen == IF nativeC # <<>> THEN nativeC[1] ELSE candidates[1]
         IN IF candidates = <<>> THEN NoCandidates
            ELSE IF dmyC # <<>>
            THEN [date |-> dmyC[1].date, candidates |-> candidates, chosenKind |-> "dmy"]
            ELSE [date |-> chosen.date, candidates |-> candidates,
                  chosenKind |-> chosen.kind]

tieBreak_none(parsed, cut) == [date |-> parsed.date, kind |-> parsed.chosenKind]

\* the days filter on one row: chosenDate and chosenKind after the tie-break
\* between a DMY and an MDY candidate
tieBreak(parsed, cut) ==
    LET candDMY == findKind(parsed.candidates, "dmy")
        candMDY == findKind(parsed.candidates, "mdy")
        dmyOk == notBefore(getTime(candDMY[1].date), cut)
        mdyOk == notBefore(getTime(candMDY[1].date), cut)
    IN IF candDMY # <<>> /\ candMDY # <<>> /\ dmyOk /\ ~mdyOk
       THEN [date |-> candDMY[1].date, kind |-> "dmy"]
       ELSE IF candDMY # <<>> /\ candMDY # <<>> /\ mdyOk /\ ~dmyOk
       THEN [date |-> candMDY[1].date, kind |-> "mdy"]
       ELSE [date |-> parsed.date, kind |-> parsed.chosenKind]

\* the date strings given to the heuristic filter: the numeric strings,
\* "2/30/2026", "12/13/99", " 5.1.2026 ", "5/1", " " and ""
HeurStrings ==
    NumericStrings \cup
    {<<N(<<2>>), S("/"), N(<<3, 0>>), S("/"), N(<<2, 0, 2, 6>>)>>,
     <<N(<<1, 2>>), S("/"), N(<<1, 3>>), S("/"), N(<<9, 9>>)>>,
     <<S(" "), N(<<5>>), S("."), N(<<1>>), S("."), N(<<2, 0, 2, 6>>), S(" ")>>,
     <<N(<<5>>), S("/"), N(<<1>>)>>,
     <<S(" ")>>,
     RawEmpty}

\* Date.now(): 12 January 2026 at 00:00:00 and at 00:00:01, and 1 June 2026
HeurNows ==
    {[day |-> dayNumber([year |-> 2026, month |-> 1, day |-> 12]), sec |-> 0],
     [day |-> dayNumber([year |-> 2026, month |-> 1, day |-> 12]), sec |-> 1],
     [day |-> dayNumber([year |-> 2026, month |-> 6, day |-> 1]), sec |-> 0]}

NoHeur == [called |-> FALSE, dateStr |-> <<>>, native |-> NoDate,
           cut |-> NoNow, parsed |-> NoCandidates,
           chosen |-> [date |-> NoDate, kind |-> "null"], keep |-> FALSE]

\* one pass of the loop of the days filter (DAYS > 0), on a row whose date
\* string is dateStr: parseDateCandidates, the tie-break, keep
FilterRow(dateStr, native, now, days) ==
    /\ ~heur.called
    /\ days > 0
    /\ LET parsed == parseDateCandidates(dateStr, native)
           chosen == tieBreak(parsed, cutoff(now, days))
       IN heur' = [called |-> TRUE, dateStr |-> dateStr, native |-> native,
                   cut |-> cutoff(now, days), parsed |-> parsed, chosen |-> chosen,
                   keep |-> (chosen.date # NoDate
                             /\ notBefore(getTime(chosen.date), cutoff(now, days)))]
    /\ UNCHANGED <<genVars, pollVars, nameVars, pruneVars, missing, genCall, hook>>

---------------------------------------------------------------------------
(* Webhook receiver: POST /jotform-webhook *)

Reqs == 1..MaxReqs

\* a string, and the values of req.query.secret: not given, '', a string,
\* and the array that a repeated parameter gives
Str(v) == [type |-> "string", val |-> v]
QueryValues ==
    {[type |-> "undefined", val |-> ""], Str(""), Str("s3cret"), Str("guess"),
     [type |-> "array", val |-> "s3cret"]}

\* process.env.JOTFORM_WEBHOOK_SECRET || ''
Secrets == {"", "s3cret"}

\* (req.query && req.query.secret) || ''
secretParam(q) ==
    IF q.type = "undefined" \/ q = Str("") THEN Str("") ELSE q

secretMismatch_whenGiven(secret, WEBHOOK_SECRET) ==
    WEBHOOK_SECRET # "" /\ secret # Str("") /\ secret # Str(WEBHOOK_SECRET)

\* WEBHOOK_SECRET && secret !== WEBHOOK_SECRET
secretMismatch(secret, WEBHOOK_SECRET) ==
    WEBHOOK_SECRET # "" /\ ~(secret.type = "string" /\ secret.val = WEBHOOK_SECRET)

\* what fetchSubmission gave: nothing (it threw, or the submission has no
\* answers), answers with so many uploaded files, or answers one of which
\* is null, on which the handler throws
FetchResults ==
    {[answers |-> FALSE, uploads |-> 0, bad |-> FALSE],
     [answers |-> TRUE, uploads |-> 0, bad |-> TRUE]}
    \cup [answers : {TRUE}, uploads : 0..2, bad : {FALSE}]

NoReq == [pc |-> "none", secret |-> Str(""), sid |-> FALSE, status |-> 0,
          left |-> 0, fetches |-> 0, downloads |-> 0, saved |-> 0,
          appends |-> 0, generates |-> 0]
NoHook == [WEBHOOK_SECRET |-> "", reqs |-> [r \in Reqs |-> NoReq]]

\* res.status(200).send('OK'); appendRowToSheet(row); await generate(mapped)
respond(req) ==
    [req EXCEPT !.status = 200, !.appends = @ + 1, !.generates = @ + 1,
                !.pc = "generating"]

\* a POST arrives: the secret check, and the handler up to its first await.
\* With a submission id that is await fetchSubmission(submissionId); without
\* one mapped is the body, nothing is downloaded, and the handler runs to
\* await generate(mapped).
Post(r, query, sid) ==
    /\ hook.reqs[r].pc = "none"
    /\ \A q \in Reqs : q < r => hook.reqs[q].pc # "none"
    /\ \E secret \in {secretParam(query)} :
        \E req \in {[hook.reqs[r] EXCEPT !.secret = secret, !.sid = sid]} :
           hook' = [hook EXCEPT !.reqs[r] =
                       IF secretMismatch(secret, hook.WEBHOOK_SECRET)
                       THEN [req EXCEPT !.status = 401, !.pc = "done"]
                       ELSE IF sid
                       THEN [req EXCEPT !.fetches = @ + 1, !.pc = "fetching"]
                       ELSE respond(req)]
    /\ UNCHANGED <<genVars, pollVars, nameVars, pruneVars, missing, genCall, heur>>

\* fetchSubmission has settled: the answers are mapped, and the first
\* upload, if any, is requested; a throw goes to the outer catch, 500
FetchDone(r, result) ==
    /\ hook.reqs[r].pc = "fetching"
    /\ hook' = [hook EXCEPT !.reqs[r] =
                   IF result.bad THEN [@ EXCEPT !.status = 500, !.pc = "done"]
                   ELSE IF result.uploads > 0
                   THEN [@ EXCEPT !.left = result.uploads, !.downloads = @ + 1,
                                  !.pc = "downloading"]
                   ELSE respond(@)]
    /\ UNCHANGED <<genVars, pollVars, nameVars, pruneVars, missing, genCall, heur>>

\* downloadFile has settled, saved or failed; the next upload is requested,
\* and after the last one the handler responds
DownloadDone(r, ok) ==
    /\ hook.reqs[r].pc = "downloading"
    /\ \E req \in {[hook.reqs[r] EXCEPT !.left = @ - 1,
                                        !.saved = IF ok THEN @ + 1 ELSE @]} :
           hook' = [hook EXCEPT !.reqs[r] =
                       IF req.left > 0 THEN [req EXCEPT !.downloads = @ + 1]
                       ELSE respond(req)]
    /\ UNCHANGED <<genVars, pollVars, nameVars, pruneVars, missing, genCall, heur>>

\* generate(mapped) has settled and the handler returns
GenerateDone(r) ==
    /\ hook.reqs[r].pc = "generating"
    /\ hook' = [hook EXCEPT !.reqs[r].pc = "done"]
    /\ UNCHANGED <<genVars, pollVars, nameVars, pruneVars, missing, genCall, heur>>

---------------------------------------------------------------------------
(* Specifications *)

InitGen ==
    /\ lock = 0
    /\ outDir = FALSE
    /\ files = [f \in Paths |-> FALSE]
    /\ proc = [p \in Procs |-> Fresh]
    /\ resolved = [s \in GenRaws |-> {}]

\* run() has called processNew(), which is suspended in listSubmissions()
InitPoll ==
    /\ nSubs = 0
    /\ lastFile = 0
    /\ cyc = [c \in Cycles |-> IF c = 1 THEN [Idle EXCEPT !.pc = "fetch"] ELSE Idle]
    /\ timerOn = FALSE
    /\ genState = [i \in Ids |-> "new"]
    /\ audit = [i \in Ids |-> "none"]

InitName ==
    /\ inp = NoInput
    /\ res = NoResult

InitPrune ==
    /\ dir = [f \in NameSet |-> 0]
    /\ pr = IdlePrune

\* every resource reference is configured, and nothing has been called
InitRest ==
    /\ missing = "none"
    /\ hook = NoHook
    /\ genCall = NoCall
    /\ heur = NoHeur

Init == InitGen /\ InitPoll /\ InitName /\ InitPrune /\ InitRest

\* GOOGLE_SHEET_ID, the credentials file and the template of the batch
\* generator; JOTFORM_API_KEY and server/fillTemplate.js of the poller
GenResources == {"sheet", "creds", "template"}
PollResources == {"apikey", "module"}

\* a run in which one of them is missing. The form holds a submission. A
\* poller without JOTFORM_API_KEY has left through process.exit(1) before
\* run() is called.
InitConfig ==
    /\ InitGen /\ InitName /\ InitPrune
    /\ genCall = NoCall
    /\ heur = NoHeur
    /\ hook = NoHook
    /\ missing \in GenResources \cup PollResources
    /\ nSubs = 1
    /\ lastFile = 0
    /\ cyc = [c \in Cycles |->
                IF c # 1 THEN Idle
                ELSE IF missing = "apikey" THEN [Idle EXCEPT !.pc = "exited"]
                ELSE [Idle EXCEPT !.pc = "fetch"]]
    /\ timerOn = FALSE
    /\ genState = [i \in Ids |-> "new"]
    /\ audit = [i \in Ids |-> "none"]

\* the poller is started when the form already holds a submission
InitBacklog ==
    /\ InitGen /\ InitName /\ InitPrune /\ InitRest
    /\ nSubs = 1
    /\ lastFile = 0
    /\ cyc = [c \in Cycles |-> IF c = 1 THEN [Idle EXCEPT !.pc = "fetch"] ELSE Idle]
    /\ timerOn = FALSE
    /\ genState = [i \in Ids |-> "new"]
    /\ audit = [i \in Ids |-> "none"]

\* one batch generator process, started again and again with any flags
Solo == {p \in Procs : \A q \in Procs : p <= q}

\* --days=-1: the days filter is off, and there is no cap
NoWindow == [NoOpts EXCEPT !.days = [set |-> TRUE, val |-> 0 - 1]]

\* the days, DEFAULT_DAYS and last settings of a run
WindowOpts == [days : Opt({0, 0 - 1, DefaultDays}),
               DEFAULT_DAYS : Opt({0}),
               last : Opt({1, 2, 0 - 1})]

\* Date.now(): 12 January 2026 at 00:00:00 and at 00:00:01
Nows == {[day |-> dayNumber([year |-> 2026, month |-> 1, day |-> 12]), sec |-> s] :
            s \in {0, 1}}

\* for the lock: a sheet with no row, or with one row dated "5/1/2026"
LockSheets == {sheet \in SheetsUpTo(1) :
                  \A i \in 1..Len(sheet) : sheet[i].DATE = Raw5Jan2026}

NextGen ==
    \E p \in Solo :
        \/ \E force, dry \in BOOLEAN : Start(p, force, dry, NoWindow)
        \/ Check(p)
        \/ Mark(p)
        \/ Hooks(p)
        \/ \E sheet \in SheetsUpTo(MaxRows), now \in Nows : FetchRows(p, sheet, now)
        \/ FetchFail(p)
        \/ \E env \in Envs : GenRow(p, env)
        \/ Finish(p)
        \/ Signal(p)

\* one batch generator process, started again and again without --force and
\* --dry, with any window and cap
NextSelect ==
    \E p \in Solo :
        \/ \E opts \in WindowOpts : Start(p, FALSE, FALSE, opts)
        \/ Check(p)
        \/ Mark(p)
        \/ Hooks(p)
        \/ \E sheet \in SheetsUpTo(MaxRows), now \in Nows : FetchRows(p, sheet, now)
        \/ FetchFail(p)
        \/ \E env \in Envs : GenRow(p, env)
        \/ Finish(p)
        \/ Signal(p)

\* several batch generator processes against the same LOCK_PATH, each
\* started without flags on a sheet of at most one row
NextLock ==
    \E p \in Procs :
        \/ Start(p, FALSE, FALSE, NoWindow)
        \/ Check(p)
        \/ Mark(p)
        \/ Hooks(p)
        \/ \E sheet \in LockSheets, now \in Nows : FetchRows(p, sheet, now)
        \/ FetchFail(p)
        \/ \E env \in Envs : GenRow(p, env)
        \/ Finish(p)
        \/ Signal(p)

\* "31/04/2025" and "hello": DATE values that name no date
Raw31Apr2025 == <<N(<<3, 1>>), S("/"), N(<<0, 4>>), S("/"), N(<<2, 0, 2, 5>>)>>
RawHello == <<W("hello")>>
UndatedRaws == {RawEmpty, Raw31Apr2025, RawHello}

\* sheets whose rows have no date, a date that names no day, free text, or
\* the date "5/1/2026"
UndatedSheets ==
    UNION {[1..k -> [DATE : UndatedRaws \cup {Raw5Jan2026},
                     NAME : {NameJSmith}, JOB_NO : {Job42}]] : k \in 0..MaxRows}

\* one batch generator process, started without --force and --dry, with
\* the default window of 7 days or with the window off, on such a sheet;
\* the template is there and the output directory can be written
NextUndated ==
    \E p \in Solo :
        \/ \E opts \in {NoOpts, NoWindow} : Start(p, FALSE, FALSE, opts)
        \/ Check(p)
        \/ Mark(p)
        \/ Hooks(p)
        \/ \E sheet \in UndatedSheets, now \in Nows : FetchRows(p, sheet, now)
        \/ FetchFail(p)
        \/ GenRow(p, "ok")
        \/ Finish(p)
        \/ Signal(p)

\* the poller with cycles that may outlast the timer interval; the audit
\* sink does not answer (no cycle reads what an append does, NextAudit has
\* its answers)
NextPoll ==
    \/ Submit
    \/ \E c \in Cycles :
        \/ Tick(c)
        \/ \E submissions \in Listings(nSubs) : FetchOk(c, submissions)
        \/ FetchError(c)
        \/ \E ok \in {generate(env) : env \in GenEnvs} : GenDone(c, ok)

\* either program runs: the batch generator alone, or the poller alone
NextLoops ==
    \/ InitPoll /\ NextGen
    \/ InitGen /\ NextPoll

\* the poller when every cycle ends before the next timer tick, with the
\* answers of the audit sink
NextAudit ==
    \/ Submit
    \/ \E c \in Solo :
        \/ Tick(c)
        \/ \E submissions \in Listings(nSubs) : FetchOk(c, submissions)
        \/ FetchError(c)
        \/ \E ok \in {generate(env) : env \in GenEnvs} : GenDone(c, ok)
    \/ \E sid \in Ids, result \in {"ok", "failed"} : AppendSettle(sid, result)

\* sheets of at most one row, dated "1/1/999"
OldSheets == {sheet \in SheetsUpTo(1) :
                 \A i \in 1..Len(sheet) : sheet[i].DATE = Raw1Jan999}

\* the program whose resource is missing runs: the batch generator, with the
\* window off or the default window, or the poller, one cycle after the other
NextConfig ==
    \/ /\ missing \in GenResources
       /\ \E p \in Solo :
            \/ \E opts \in {NoOpts, NoWindow} : Start(p, FALSE, FALSE, opts)
            \/ Check(p)
            \/ Mark(p)
            \/ Hooks(p)
            \/ \E sheet \in OldSheets, now \in Nows : FetchRows(p, sheet, now)
            \/ FetchFail(p)
            \/ \E env \in Envs : GenRow(p, env)
            \/ Finish(p)
            \/ Signal(p)
    \/ /\ missing \in PollResources
       /\ \/ Submit
          \/ \E c \in Solo :
              \/ Tick(c)
              \/ \E submissions \in Listings(nSubs) : FetchOk(c, submissions)
              \/ FetchError(c)
              \/ \E ok \in {generate(env) : env \in GenEnvs} : GenDone(c, ok)

NextName == \E data \in Inputs : NameFile(data)

\* the receiver started with or without JOTFORM_WEBHOOK_SECRET
InitHook ==
    /\ InitGen /\ InitPoll /\ InitName /\ InitPrune
    /\ missing = "none"
    /\ genCall = NoCall
    /\ heur = NoHeur
    /\ \E s \in Secrets : hook = [NoHook EXCEPT !.WEBHOOK_SECRET = s]

NextHook ==
    \E r \in Reqs :
        \/ \E query \in QueryValues, sid \in BOOLEAN : Post(r, query, sid)
        \/ \E result \in FetchResults : FetchDone(r, result)
        \/ \E ok \in BOOLEAN : DownloadDone(r, ok)
        \/ GenerateDone(r)

NextHeur ==
    \E dateStr \in HeurStrings, now \in HeurNows :
        \E native \in nativeDates(trim(dateStr)) :
            FilterRow(dateStr, native, now, DefaultDays)

NextCall == \E mapped \in Mappings, template \in BOOLEAN : Generate(mapped, template)

NextPrune ==
    \/ \E f \in NameSet, t \in Mtimes : PutFile(f, t)
    \/ \E keepN \in 0..MaxKeep, dry \in BOOLEAN, bad \in NameSet \cup {"none"} :
          PruneList(keepN, dry, bad)
    \/ \E fails \in BOOLEAN : PruneOne(fails)

SpecGen == Init /\ [][NextGen]_vars
SpecLock == Init /\ [][NextLock]_vars
SpecPoll == Init /\ [][NextPoll]_vars
SpecLoops == Init /\ [][NextLoops]_vars
SpecSelect == Init /\ [][NextSelect]_vars
SpecName == Init /\ [][NextName]_vars
SpecPrune == Init /\ [][NextPrune]_vars
SpecUndated == Init /\ [][NextUndated]_vars
SpecBacklog == InitBacklog /\ [][NextPoll]_vars
SpecAudit == Init /\ [][NextAudit]_vars
SpecConfig == InitConfig /\ [][NextConfig]_vars
SpecCall == Init /\ [][NextCall]_vars
SpecHeur == Init /\ [][NextHeur]_vars
SpecHook == InitHook /\ [][NextHook]_vars

---------------------------------------------------------------------------
(* Claims *)

\* C1: the persisted watermark is never at or after a submission whose
\* generation failed and has not succeeded since, so a failed submission is
\* offered again by the next cycle.
C1_WatermarkBelowFailed ==
    \A i \in Ids : genState[i] = "failed" => lastFile < i

\* C2: at most one batch generator process at a time is past lock
\* acquisition (fetching rows or in the generation loop).
C2_AtMostOneRunning ==
    Cardinality({p \in Procs : Running(p)}) <= 1

\* C3: at most one poll cycle is in progress at any time; the timer never
\* starts processNew while an earlier call is still suspended.
C3_OneCycleAtATime ==
    Cardinality({c \in Cycles : InFlight(c)}) <= 1

\* C4: a submission whose generation has succeeded is never passed to the
\* generator again.
C4_NeverGeneratedAgain ==
    \A i \in Ids : genState[i] # "again"

\* C5: with force off and dry-run off, a second createDocx call of a run for
\* the same record finds the target, writes nothing and reports skipped =
\* TRUE, after a first call that wrote the file and reported skipped = FALSE
\* (or itself found the file of an earlier run); the file exists once.
C5_SecondCallSkips ==
    \A p \in Procs :
        (~proc[p].FORCE /\ ~proc[p].DRY) =>
            \A i, j \in 1..Len(proc[p].log) :
                (i < j /\ proc[p].log[i].path = proc[p].log[j].path) =>
                    /\ proc[p].log[j].skipped
                    /\ ~proc[p].log[j].wrote
                    /\ proc[p].log[j].existed
                    /\ \/ proc[p].log[i].existed /\ proc[p].log[i].skipped
                       \/ /\ ~proc[p].log[i].existed
                          /\ proc[p].log[i].wrote
                          /\ ~proc[p].log[i].skipped
                    /\ files[proc[p].log[j].path]

\* a run with both flags off that wrote a new file and then skipped it
C5_Witness ==
    \E p \in Procs :
        /\ ~proc[p].FORCE /\ ~proc[p].DRY
        /\ Len(proc[p].log) >= 2
        /\ proc[p].log[1].path = proc[p].log[2].path
        /\ ~proc[p].log[1].existed /\ proc[p].log[1].wrote
        /\ proc[p].log[2].skipped /\ ~proc[p].log[2].wrote

\* C6 as stated: with the force flag set, every createDocx call writes the
\* file and reports skipped = FALSE, whatever the other flags are.
C6_ForceAlwaysWrites ==
    \A p \in Procs :
        proc[p].FORCE =>
            \A i \in 1..Len(proc[p].log) :
                proc[p].log[i].wrote /\ ~proc[p].log[i].skipped

\* C6 amended: with the force flag set, every createDocx call that returns
\* reports skipped = FALSE, and it has written the file, whether or not the
\* target existed, exactly when dry-run is off.
C6_ForceWritesUnlessDry ==
    \A p \in Procs :
        proc[p].FORCE =>
            \A i \in 1..Len(proc[p].log) :
                /\ ~proc[p].log[i].skipped
                /\ proc[p].log[i].wrote <=> ~proc[p].DRY

\* a forced run that rewrote a file that was already there
C6_Witness ==
    \E p \in Procs :
        /\ proc[p].FORCE /\ ~proc[p].DRY
        /\ \E i \in 1..Len(proc[p].log) :
              proc[p].log[i].existed /\ proc[p].log[i].wrote

\* C7: a run with the dry-run flag set changes nothing in the filesystem:
\* it creates or removes no marker, no directory and no artifact.
C7_DryRunTouchesNothing ==
    \A p \in Procs : proc[p].DRY => proc[p].effects = {}

\* C8: a process that created the lock marker and ends by normal
\* completion, the empty-sheet return, a fatal error or SIGINT/SIGTERM
\* leaves no marker behind at its exit.
C8_MarkerRemovedAtExit ==
    [][\A p \in Procs :
          ( /\ proc[p].pc # "exited"
            /\ proc'[p].pc = "exited"
            /\ proc[p].created
            /\ proc'[p].ended \in {"done", "empty", "fetcherror", "generror",
                                   "signal"} )
          => lock' = 0]_vars

\* C9: a process whose start-up check finds the marker exits with status 1
\* in that step: it has fetched nothing, has no filesystem effect, and
\* leaves the marker and its content as they were.
C9_ContenderExitsClean ==
    [][\A p \in Procs :
          ( /\ proc[p].pc = "check"
            /\ lock # 0
            /\ proc'[p] # proc[p]
            /\ proc'[p].ended # "signal" )
          => /\ proc'[p].pc = "exited"
             /\ proc'[p].code = 1
             /\ ~proc'[p].fetched
             /\ proc'[p].effects = {}
             /\ lock' = lock
             /\ files' = files
             /\ outDir' = outDir]_vars

\* a contender has exited and the marker is still there
C9_Witness ==
    \E p \in Procs : proc[p].ended = "contention" /\ lock # 0

Range(q) == {q[i] : i \in 1..Len(q)}

\* C11: with an active window of D days, the filter keeps a row if and only
\* if its date resolves to a calendar date t with t >= now - D * 86400 s: a
\* row at exactly the cutoff is kept, one a second before it is dropped, and
\* a row whose date does not resolve is dropped.
C11_KeptIffWithinWindow ==
    \A p \in Procs :
        (proc[p].pc = "gen" /\ DAYS(proc[p].opts) > 0) =>
            \A i \in 1..Len(proc[p].sheet) :
                LET t == parseDateDeterministic(proc[p].sheet[i].DATE).date
                    daysAfter == dayNumber(t) + DAYS(proc[p].opts) - proc[p].now.day
                    within == t # NoDate /\
                              (daysAfter >= 1 \/ (daysAfter = 0 /\ proc[p].now.sec = 0))
                IN i \in Range(proc[p].kept) <=> within

\* the filter has kept a row dated exactly at the cutoff and dropped a row
\* whose date does not resolve
C11_Witness ==
    \E p \in Procs :
        /\ proc[p].pc = "gen" /\ DAYS(proc[p].opts) > 0
        /\ \E i, j \in 1..Len(proc[p].sheet) :
              /\ i \in Range(proc[p].kept)
              /\ getTime(parseDateDeterministic(proc[p].sheet[i].DATE).date)
                    = cutoff(proc[p].now, DAYS(proc[p].opts))
              /\ j \notin Range(proc[p].kept)
              /\ proc[p].sheet[j].DATE = RawEmpty

\* C12: when the window requested by the days option, or else by
\* DEFAULT_DAYS, is 0 or negative, the filter is off: every fetched row is
\* handed on, whatever its date.
C12_NonPositiveWindowKeepsAll ==
    \A p \in Procs :
        LET o == proc[p].opts
            requested == IF o.days.set THEN o.days.val
                         ELSE IF o.DEFAULT_DAYS.set THEN o.DEFAULT_DAYS.val
                         ELSE DefaultDays
        IN (proc[p].pc = "gen" /\ requested <= 0) =>
               proc[p].kept = [i \in 1..Len(proc[p].sheet) |-> i]

\* C13: the rows handed to the loop are rows of the sheet in sheet order;
\* with a cap N > 0 they are the last min(N, kept) rows the filter kept,
\* without a cap all of them; the loop visits them in that order.
C13_TrailingSliceInOrder ==
    \A p \in Procs :
        proc[p].pc = "gen" =>
            LET kept == proc[p].kept
                handed == proc[p].handed
                n == LAST_N(proc[p].opts)
                m == IF n > 0 THEN (IF n < Len(kept) THEN n ELSE Len(kept))
                     ELSE Len(kept)
                visited == [i \in 1..Len(proc[p].log) |-> proc[p].log[i].row]
            IN /\ \A i \in 1..Len(handed) : handed[i] \in 1..Len(proc[p].sheet)
               /\ \A i, j \in 1..Len(handed) : i < j => handed[i] < handed[j]
               /\ Range(handed) \subseteq Range(kept)
               /\ handed = [i \in 1..m |-> kept[Len(kept) - m + i]]
               /\ visited \o proc[p].rows = handed

\* a cap of 1 on two kept rows: the loop has visited the second row only
C13_Witness ==
    \E p \in Procs :
        /\ proc[p].pc = "gen"
        /\ LAST_N(proc[p].opts) = 1
        /\ Len(proc[p].kept) = 2
        /\ Len(proc[p].log) = 1
        /\ proc[p].log[1].row = 2

RealDate(d) ==
    d.month \in 1..12 /\ d.day >= 1 /\ d.day <= daysInMonth(d.year, d.month)

\* the day, month and year written in a numeric string a<sep>b<sep>y, read
\* day first; a year below 100 is 2000 + y
DayFirst(str) ==
    [year |-> IF Number(str[5].d) < 100 THEN 2000 + Number(str[5].d)
              ELSE Number(str[5].d),
     month |-> Number(str[3].d),
     day |-> Number(str[1].d)]

\* C14: a numeric string a<sep>b<sep>y is read as day a, month b: it
\* resolves exactly when that is a real date, and then to that date;
\* "05/01/2026" is 5 January 2026, "12/25/2026" is none, "5/1/26" is in 2026.
C14_NumericIsDayFirst ==
    res.called =>
        /\ matchNumeric(trim(inp.DATE)) =>
              IF RealDate(DayFirst(trim(inp.DATE)))
              THEN res.parsed.date = DayFirst(trim(inp.DATE))
              ELSE res.parsed = none
        /\ inp.DATE = Raw05Jan2026 =>
              res.parsed.date = [year |-> 2026, month |-> 1, day |-> 5]
        /\ inp.DATE = Raw12x25x2026 => res.parsed = none
        /\ inp.DATE = Raw5Jan26 =>
              res.parsed.date = [year |-> 2026, month |-> 1, day |-> 5]

\* "05/01/2026" has been resolved to the fifth of January
C14_Witness ==
    /\ res.called
    /\ inp.DATE = Raw05Jan2026
    /\ res.parsed.date.day = 5 /\ res.parsed.date.month = 1

\* the dates written in a string, one for each shape it has
Readings(raw) ==
    LET str == trim(raw)
        a == dropOrdinal(cleaned(raw), 1)
        b == dropOrdinal(cleaned(raw), 3)
    IN (IF raw # <<>> /\ matchNumeric(str) THEN {DayFirst(str)} ELSE {})
       \cup (IF raw # <<>> /\ matchISO(str)
             THEN {[year |-> Number(str[1].d), month |-> Number(str[3].d),
                    day |-> Number(str[5].d)]}
             ELSE {})
       \cup (IF raw # <<>> /\ matchDayMonthYear(a)
             THEN {[year |-> Number(a[5].d),
                    month |-> monthNames(toLowerCase(a[3].s)),
                    day |-> Number(a[1].d)]}
             ELSE {})
       \cup (IF raw # <<>> /\ matchMonthDayYear(b)
             THEN {[year |-> Number(b[5].d),
                    month |-> monthNames(toLowerCase(b[1].s)),
                    day |-> Number(b[3].d)]}
             ELSE {})

\* C15: the resolver returns none unless the day, month and year written in
\* the string name a real date, in every shape, and none for a string of no
\* shape; a date it returns has exactly the components written.
C15_NoneUnlessRealDate ==
    res.called =>
        \/ res.parsed = none
        \/ /\ res.parsed.date \in Readings(inp.DATE)
           /\ RealDate(res.parsed.date)

\* "31/4/2026" has been given to the resolver, which returned none
C15_Witness ==
    /\ res.called
    /\ inp.DATE = <<N(<<3, 1>>), S("/"), N(<<4>>), S("/"), N(<<2, 0, 2, 6>>)>>
    /\ res.parsed = none

\* C16: a string of the ISO shape is resolved by the ISO rule (kind 'iso',
\* or none when it names no real date), never by the numeric rule.
C16_IsoBeforeNumeric ==
    (res.called /\ inp.DATE # <<>> /\ matchISO(trim(inp.DATE))) =>
        /\ res.parsed.kind # "dmy"
        /\ res.parsed = isoRule(trim(inp.DATE))

\* C18: pruneOutputDir(K) that ran with dry-run off and no failed deletion:
\* with 0 < K < N artifacts it has removed N - K of them, none newer than
\* one it left, and left K; with N <= K it has removed none; in both cases
\* nothing else in the directory has changed.
C18_PruneRemovesOldest ==
    (pr.pc = "done" /\ ~pr.DRY /\ pr.failed = {} /\ pr.keepN > 0) =>
        LET artifacts == {f \in NameSet : isDocx(f) /\ pr.before[f] # 0}
            removed == {f \in artifacts : dir[f] = 0}
            left == artifacts \ removed
            n == Cardinality(artifacts)
        IN /\ \A f \in NameSet \ removed : dir[f] = pr.before[f]
           /\ IF pr.keepN < n
              THEN /\ Cardinality(removed) = n - pr.keepN
                   /\ Cardinality(left) = pr.keepN
                   /\ \A r \in removed, k \in left : pr.before[r] <= pr.before[k]
              ELSE removed = {}

\* three artifacts of three different ages pruned to the newest one
C18_Witness ==
    /\ pr.pc = "done" /\ ~pr.DRY /\ pr.failed = {} /\ pr.keepN = 1
    /\ \A f \in NameSet : pr.before[f] # 0
    /\ Cardinality({pr.before[f] : f \in {"a.docx", "b.DOCX", "c.docx"}}) = 3
    /\ Cardinality({f \in NameSet : dir[f] = 0}) = 2

\* C19: a failure to inspect or to delete one artifact never fails the run,
\* and every other artifact beyond the retain count is still deleted.
C19_FailureNeverStopsPruning ==
    /\ pr.pc # "threw"
    /\ (pr.pc = "done" /\ ~pr.DRY) =>
          \A i \in (pr.keepN + 1)..Len(pr.files) :
              pr.files[i] \notin pr.failed => dir[pr.files[i]] = 0

\* C20: the record {Date: "5/1/26", Name: "J Smith", Job Number: "42"} gets
\* the file name 5-1-2026-J_Smith-42.docx, and no file name has a path
\* separator or a run of white space in its name or job part.
C20_FileNameSanitized ==
    res.called =>
        /\ inp = [DATE |-> Raw5Jan26, NAME |-> NameJSmith, JOB_NO |-> Job42] =>
              res.file = [date |-> <<5, 1, 2026>>,
                          name |-> <<W("J"), S("_"), W("Smith")>>,
                          job |-> Job42]
        /\ \A part \in {res.file.name, res.file.job} :
              /\ \A i \in 1..Len(part) : ~isSep(part[i], {"/", "\\"})
              /\ \A i \in 1..(Len(part) - 1) :
                    ~(isBlank(part[i]) /\ isBlank(part[i + 1]))

\* a date token that reads D-M-YYYY: one or two digits, one or two digits,
\* four digits
ShapeDMYYYY(tok) ==
    Len(tok) = 3 /\ tok[1] \in 0..99 /\ tok[2] \in 0..99 /\ tok[3] \in 1000..9999

\* C21: no artifact is ever written whose date token is neither 'nodate' nor
\* of the shape D-M-YYYY; a createDocx call whose token has another shape
\* (such as 1-1-999) throws before the write, and the run ends there with
\* exit status 1.
C21_NoMalformedDateToken ==
    [][/\ \A path \in Paths :
             files'[path] => (path.date = nodate \/ ShapeDMYYYY(path.date))
       /\ \A p \in Procs :
             ( /\ proc[p].pc = "gen"
               /\ proc[p].rows # <<>>
               /\ proc'[p] # proc[p]
               /\ LET tok == safeDate(proc[p].sheet[Head(proc[p].rows)])
                  IN tok # nodate /\ ~ShapeDMYYYY(tok) )
             => /\ proc'[p].pc = "exited"
                /\ proc'[p].ended = "generror"
                /\ proc'[p].code = 1
                /\ files' = files]_vars

\* the file name step has resolved "1/1/999" to the year 999, the run has
\* ended on the error, and no file carries that token
C21_Witness ==
    /\ \E a \in resolved[Raw1Jan999] : a.step = "file" /\ a.parsed.date.year = 999
    /\ \A s \in GenRaws \ {Raw1Jan999} : resolved[s] = {}
    /\ \E p \in Procs : proc[p].ended = "generror" /\ proc[p].code = 1
    /\ \A path \in Paths : ~files[path]

\* C22: a run that started with an empty output directory, is not a dry
\* run and has visited every record handed to the loop without a failure
\* leaves as many artifact files as records were handed to it.
C22_OneFilePerRecord ==
    \A p \in Procs :
        ( /\ proc[p].pc = "gen"
          /\ proc[p].rows = <<>>
          /\ ~proc[p].DRY
          /\ \A path \in Paths :
                files[path] =>
                    \E i \in 1..Len(proc[p].log) :
                        /\ proc[p].log[i].path = path
                        /\ proc[p].log[i].wrote
                        /\ ~proc[p].log[i].existed )
        => Cardinality({path \in Paths : files[path]}) = Len(proc[p].handed)

\* the DATE of the sheet row at position i does not resolve
Undated(p, i) == parseDateDeterministic(proc[p].sheet[i].DATE) = none

\* C23: a row whose date does not resolve never makes createDocx throw;
\* under an active window the filter drops it and the loop never visits
\* it, and with the window off the loop visits it and its file name has the
\* date token 'nodate'.
C23_UndatedDroppedOrNodate ==
    \A p \in Procs :
        /\ proc[p].ended # "generror"
        /\ proc[p].pc = "gen" =>
              /\ DAYS(proc[p].opts) > 0 =>
                    \A i \in 1..Len(proc[p].sheet) :
                        Undated(p, i) =>
                            /\ i \notin Range(proc[p].kept)
                            /\ \A j \in 1..Len(proc[p].log) : proc[p].log[j].row # i
              /\ DAYS(proc[p].opts) <= 0 =>
                    /\ proc[p].handed = [i \in 1..Len(proc[p].sheet) |-> i]
                    /\ proc[p].rows = <<>> => Len(proc[p].log) = Len(proc[p].handed)
              /\ \A j \in 1..Len(proc[p].log) :
                    Undated(p, proc[p].log[j].row) =>
                        /\ proc[p].log[j].path.date = nodate
                        /\ proc[p].log[j].wrote \/ proc[p].log[j].skipped

\* with the window off, the row dated "31/04/2025" got a file named nodate-...
C23_Witness ==
    \E p \in Procs :
        /\ proc[p].pc = "gen"
        /\ DAYS(proc[p].opts) <= 0
        /\ \E j \in 1..Len(proc[p].log) :
              /\ proc[p].sheet[proc[p].log[j].row].DATE = Raw31Apr2025
              /\ proc[p].log[j].wrote
              /\ proc[p].log[j].path.date = nodate
              /\ files[proc[p].log[j].path]

\* under the window of 7 days, the rows dated "31/04/2025" and "hello" were
\* dropped and the loop has finished
C23_WitnessDropped ==
    \E p \in Procs :
        /\ proc[p].pc = "gen"
        /\ DAYS(proc[p].opts) > 0
        /\ Len(proc[p].sheet) = 2
        /\ proc[p].sheet[1].DATE = Raw31Apr2025
        /\ proc[p].sheet[2].DATE = RawHello
        /\ proc[p].kept = <<>>

\* C29: the persisted watermark never moves backwards; a step that changes
\* it ends a cycle, and the value written is a submission that cycle passed
\* to generate() with success, greater than the watermark the cycle read at
\* its start; a cycle in which no generation succeeded leaves the file alone.
C29_WatermarkNeverGoesBack ==
    [][lastFile' # lastFile =>
          /\ lastFile' > lastFile
          /\ \E c \in Cycles :
                /\ cyc[c].pc = "gen" /\ cyc'[c].pc = "done"
                /\ lastFile' \in cyc[c].offered
                /\ genState'[lastFile'] \in {"ok", "again"}
                /\ accepts(lastFile', cyc[c].last)
                /\ lastFile' > cyc[c].last]_vars

\* C26: a cycle that leaves listSubmissions() without entering the loop, as
\* it does when the fetch fails, ends in that step: it has passed no
\* submission to generate(), it does not fetch again, the watermark and the
\* state of every submission are as before, and the timer is (or stays)
\* registered, so the next cycle accepts the same submissions.
C26_FetchFailureEndsCycleOnly ==
    [][\A c \in Cycles :
          ( /\ cyc[c].pc = "fetch"
            /\ cyc'[c] # cyc[c]
            /\ cyc'[c].pc # "gen" )
          => /\ cyc'[c].pc = "done"
             /\ cyc'[c].offered = {}
             /\ lastFile' = lastFile
             /\ genState' = genState
             /\ nSubs' = nSubs
             /\ timerOn'
             /\ \A l \in Listings(nSubs) :
                   toProcess(l, lastFile') = toProcess(l, lastFile)]_vars

\* the first cycle has ended although nothing the form held was passed to
\* generate(): its fetch failed; the timer is registered
C26_Witness ==
    /\ cyc[1].pc = "done"
    /\ \A c \in Cycles : c # 1 => cyc[c].pc = "idle"
    /\ \A i \in Ids : genState[i] = "new"
    /\ lastFile = 0
    /\ timerOn

\* the cycle after a failed one has fetched and is generating the
\* submission the failed one would have
C26_WitnessNext ==
    /\ cyc[1].pc = "gen"
    /\ timerOn
    /\ Head(cyc[1].todo) = 1
    /\ \A i \in Ids : genState[i] = "new"

\* C24: the cycle never waits for an audit append. Whatever the appends do
\* (succeed, fail or stay in flight), a cycle that has ended has passed
\* every accepted submission to generate(), has left the timer registered,
\* and the watermark is at or beyond every submission for which an append
\* was started; and a generate() result always moves its cycle on in the
\* same step, with the append it started still in flight.
C24_AppendNeverBlocks ==
    [][/\ \A c \in Solo :
             /\ cyc'[c].pc = "done" =>
                   /\ cyc'[c].complete
                   /\ timerOn'
                   /\ \A i \in Ids : audit'[i] # "none" => lastFile' >= i
             /\ (cyc[c].pc = "gen" /\ cyc'[c] # cyc[c]) =>
                   /\ cyc'[c].pc = "done" \/ cyc'[c].todo = Tail(cyc[c].todo)
                   /\ \A i \in Ids :
                         audit'[i] # audit[i] =>
                             /\ i = Head(cyc[c].todo)
                             /\ audit'[i] = "pending"
                             /\ IF cyc'[c].pc = "done" THEN lastFile' = i
                                ELSE cyc'[c].newestSeen = i]_vars

\* the append for submission 1 failed and the one for submission 2 is still
\* in flight; submission 3 has been generated since and the watermark is 3
C24_Witness ==
    /\ MaxId >= 3
    /\ audit[1] = "failed"
    /\ audit[2] = "pending"
    /\ genState[3] = "ok"
    /\ lastFile = 3
    /\ timerOn

\* the poller process has ended: no cycle is running or will be started
PollerEnded == ~timerOn /\ \A c \in Cycles : cyc[c].pc \in {"idle", "exited"}

\* C25: in a run that lacks a required resource reference no artifact is
\* written, no record is processed and the watermark stays as it was; a
\* batch run that ends (other than at the lock or on a signal) ends with a
\* non-zero exit status, and a poller that has met the missing resource
\* has ended.
C25_MissingResourceEndsRun ==
    /\ missing \in GenResources =>
          /\ \A path \in Paths : ~files[path]
          /\ \A p \in Procs :
                /\ proc[p].log = <<>>
                /\ (proc[p].pc = "exited"
                      /\ proc[p].ended \notin {"contention", "signal"})
                   => proc[p].code # 0
    /\ missing \in PollResources =>
          /\ lastFile = 0
          /\ \A i \in Ids : genState[i] \in {"new", "failed"}
          /\ (\E i \in Ids : genState[i] = "failed") => PollerEnded

\* C27: generate(mapped) invokes the function exported by fillTemplate.js
\* with mapped as its argument, and what is rendered is the data of that
\* submission.
C27_ExportCalledWithMapped ==
    genCall.called =>
        /\ genCall.calls[1].via = "export"
        /\ genCall.calls[1].args = <<genCall.mapped>>
        /\ genCall.ok => genCall.rendered = mainData(genCall.mapped)

\* the month, day and year written in a numeric string a<sep>b<sep>y, read
\* month first; a year below 100 is 2000 + y
MonthFirst(str) ==
    [year |-> DayFirst(str).year, month |-> Number(str[1].d), day |-> Number(str[3].d)]

\* the date lies within the retention cutoff of the filtered row
Within(d) == notBefore(getTime(d), heur.cut)

\* C28: under the heuristic policy a numeric string resolves to its
\* day-month-year reading whenever that is a real date, else to the free-form
\* parse, else to the first candidate (the month-day-year reading, if real);
\* when both readings are real dates the days filter takes the one within
\* the cutoff if exactly one is, and day-month-year if both or neither are.
C28_HeuristicPolicy ==
    (heur.called /\ heur.dateStr # <<>> /\ matchParts(trim(heur.dateStr))) =>
        LET dmy == DayFirst(trim(heur.dateStr))
            mdy == MonthFirst(trim(heur.dateStr))
        IN /\ heur.parsed.date =
                  IF RealDate(dmy) THEN dmy
                  ELSE IF heur.native # NoDate THEN heur.native
                  ELSE IF RealDate(mdy) THEN mdy ELSE NoDate
           /\ heur.chosen.date =
                  IF RealDate(dmy) /\ RealDate(mdy)
                  THEN (IF Within(mdy) /\ ~Within(dmy) THEN mdy ELSE dmy)
                  ELSE heur.parsed.date

\* both readings of "5/1/2026" are real dates and the filter took the
\* month-first one, 1 May 2026
C28_Witness ==
    /\ heur.called
    /\ heur.dateStr = Raw5Jan2026
    /\ heur.parsed.chosenKind = "dmy"
    /\ heur.chosen = [date |-> [year |-> 2026, month |-> 5, day |-> 1], kind |-> "mdy"]

\* the day-first reading is no date and the free-form parse gave nothing:
\* the first candidate, month first, was taken
C28_WitnessFirstCandidate ==
    /\ heur.called
    /\ heur.parsed.chosenKind = "mdy"
    /\ heur.native = NoDate

\* "2/30/2026" has no day-first and no month-first reading, and the
\* free-form parse gave 2 March 2026, which was taken
C28_WitnessNative ==
    /\ heur.called
    /\ heur.parsed.chosenKind = "native"
    /\ Len(heur.parsed.candidates) = 1
    /\ heur.parsed.date = [year |-> 2026, month |-> 3, day |-> 2]

\* C30: with a webhook secret configured, a request whose secret parameter
\* is not that secret is answered 401 and fetches, downloads, appends and
\* generates nothing; a request that reaches one of those steps carries the
\* secret.
C30_SecretGuardsWebhook ==
    \A r \in Reqs :
        (hook.WEBHOOK_SECRET # "" /\ hook.reqs[r].pc # "none") =>
            IF hook.reqs[r].secret = Str(hook.WEBHOOK_SECRET)
            THEN hook.reqs[r].status # 401
            ELSE /\ hook.reqs[r].status = 401
                 /\ hook.reqs[r].pc = "done"
                 /\ hook.reqs[r].fetches = 0 /\ hook.reqs[r].downloads = 0
                 /\ hook.reqs[r].appends = 0 /\ hook.reqs[r].generates = 0

\* a request with a wrong secret was answered 401, and one with the secret
\* was fetched, downloaded a file and reached the generator
C30_Witness ==
    /\ hook.WEBHOOK_SECRET = "s3cret"
    /\ \E r \in Reqs : hook.reqs[r].secret = Str("guess") /\ hook.reqs[r].status = 401
    /\ \E r \in Reqs :
          /\ hook.reqs[r].secret = Str("s3cret")
          /\ hook.reqs[r].fetches = 1 /\ hook.reqs[r].saved = 1
          /\ hook.reqs[r].generates = 1 /\ hook.reqs[r].status = 200

\* a request without the secret parameter, and one that repeats it, were
\* answered 401
C30_WitnessAbsent ==
    /\ hook.WEBHOOK_SECRET = "s3cret"
    /\ \E r \in Reqs : hook.reqs[r].secret = Str("") /\ hook.reqs[r].status = 401
    /\ \E r \in Reqs : hook.reqs[r].secret.type = "array" /\ hook.reqs[r].status = 401

====
